---- MODULE Spec2Model ----
(***************************************************************************)
(* Model of the Jira MCP server (devlitus/mcp-jira).  Each tool is an      *)
(* async handler: it builds one request, awaits fetch, and maps the HTTP   *)
(* response to a text result.  Strings are sequences of tokens (a word, a  *)
(* punctuation mark or a blank is one token), so template literals are     *)
(* concatenations and String.includes is a sub-sequence test.              *)
(***************************************************************************)
EXTENDS Integers, Sequences, FiniteSets, TLC

(* ------------------------------ strings ------------------------------- *)

\* String.prototype.includes
Includes(s, sub) ==
  \E i \in 0..(Len(s) - Len(sub)) : SubSeq(s, i + 1, i + Len(sub)) = sub

\* `${n}` / n.toString() for a number
NumStr(n) == <<ToString(n)>>

(* -------------------------------- JSON -------------------------------- *)

Q == "\""
NL == "\n"
SP == " "
WhiteSpace == {SP, NL}
NumTokens == {"0", "1", "2"}

JStr(s) == [t |-> "str", v |-> s]
JNum(n) == [t |-> "num", v |-> n]
JArr(a) == [t |-> "arr", v |-> a]
JObj(o) == [t |-> "obj", v |-> o]
JNull == [t |-> "null", v |-> 0]
Member(k, v) == [k |-> k, v |-> v]

NumOfToken(tok) == CASE tok = "0" -> 0 [] tok = "1" -> 1 [] OTHER -> 2

ParseFail(msg, at) == [ok |-> FALSE, message |-> msg, next |-> at]
ParseOk(v, at) == [ok |-> TRUE, val |-> v, next |-> at]

\* the SyntaxError message of JSON.parse
UnexpectedToken(t, i) ==
  IF i > Len(t) THEN <<"Unexpected end of JSON input">>
  ELSE <<"Unexpected token ", t[i], " in JSON at position ", ToString(i - 1)>>

RECURSIVE SkipWs(_, _)
SkipWs(t, i) ==
  IF i <= Len(t) /\ t[i] \in WhiteSpace THEN SkipWs(t, i + 1) ELSE i

\* the escape sequences of a quote and of a line break in a string literal
EscQ == "\\\""
EscNL == "\\n"

\* characters of a string literal up to the closing quote
RECURSIVE ParseChars(_, _, _)
ParseChars(t, i, acc) ==
  IF i > Len(t) THEN ParseFail(UnexpectedToken(t, i), i)
  ELSE IF t[i] = Q THEN ParseOk(acc, i + 1)
  ELSE IF t[i] = NL THEN ParseFail(UnexpectedToken(t, i), i)
  ELSE IF t[i] = EscQ THEN ParseChars(t, i + 1, Append(acc, Q))
  ELSE IF t[i] = EscNL THEN ParseChars(t, i + 1, Append(acc, NL))
  ELSE ParseChars(t, i + 1, Append(acc, t[i]))

RECURSIVE ParseValue(_, _)
RECURSIVE ParseElements(_, _, _)
RECURSIVE ParseMembers(_, _, _)

ParseValue(t, i0) ==
  LET i == SkipWs(t, i0) IN
  IF i > Len(t) THEN ParseFail(UnexpectedToken(t, i), i)
  ELSE IF t[i] = Q THEN
    LET r == ParseChars(t, i + 1, <<>>) IN
    IF r.ok THEN ParseOk(JStr(r.val), r.next) ELSE r
  ELSE IF t[i] \in NumTokens THEN ParseOk(JNum(NumOfToken(t[i])), i + 1)
  ELSE IF t[i] = "null" THEN ParseOk(JNull, i + 1)
  ELSE IF t[i] = "[" THEN
    LET j == SkipWs(t, i + 1) IN
    IF j <= Len(t) /\ t[j] = "]" THEN ParseOk(JArr(<<>>), j + 1)
    ELSE ParseElements(t, j, <<>>)
  ELSE IF t[i] = "{" THEN
    LET j == SkipWs(t, i + 1) IN
    IF j <= Len(t) /\ t[j] = "}" THEN ParseOk(JObj(<<>>), j + 1)
    ELSE ParseMembers(t, j, <<>>)
  ELSE ParseFail(UnexpectedToken(t, i), i)

ParseElements(t, i, acc) ==
  LET r == ParseValue(t, i) IN
  IF ~r.ok THEN r
  ELSE LET j == SkipWs(t, r.next) IN
    IF j > Len(t) THEN ParseFail(UnexpectedToken(t, j), j)
    ELSE IF t[j] = "," THEN ParseElements(t, j + 1, Append(acc, r.val))
    ELSE IF t[j] = "]" THEN ParseOk(JArr(Append(acc, r.val)), j + 1)
    ELSE ParseFail(UnexpectedToken(t, j), j)

ParseMembers(t, i0, acc) ==
  LET i == SkipWs(t, i0) IN
  IF i > Len(t) \/ t[i] /= Q THEN ParseFail(UnexpectedToken(t, i), i)
  ELSE LET k == ParseChars(t, i + 1, <<>>) IN
    IF ~k.ok THEN k
    ELSE LET c == SkipWs(t, k.next) IN
      IF c > Len(t) \/ t[c] /= ":" THEN ParseFail(UnexpectedToken(t, c), c)
      ELSE LET r == ParseValue(t, c + 1) IN
        IF ~r.ok THEN r
        ELSE LET j == SkipWs(t, r.next) IN
          IF j > Len(t) THEN ParseFail(UnexpectedToken(t, j), j)
          ELSE IF t[j] = ","
            THEN ParseMembers(t, j + 1, Append(acc, Member(k.val, r.val)))
          ELSE IF t[j] = "}"
            THEN ParseOk(JObj(Append(acc, Member(k.val, r.val))), j + 1)
          ELSE ParseFail(UnexpectedToken(t, j), j)

\* JSON.parse(text): a value, or a SyntaxError carrying a message
JSONParse(t) ==
  LET r == ParseValue(t, 1) IN
  IF ~r.ok THEN r
  ELSE LET j == SkipWs(t, r.next) IN
    IF j <= Len(t) THEN ParseFail(UnexpectedToken(t, j), j) ELSE r

RECURSIVE Spaces(_)
Spaces(n) == IF n <= 0 THEN <<>> ELSE <<SP>> \o Spaces(n - 1)

\* line break and indentation that JSON.stringify inserts when gap > 0
Break(gap, level) == IF gap = 0 THEN <<>> ELSE <<NL>> \o Spaces(gap * level)

\* the characters of a string as JSON.stringify quotes them
Quote(s) == [i \in 1..Len(s) |-> CASE s[i] = Q -> EscQ [] s[i] = NL -> EscNL [] OTHER -> s[i]]

RECURSIVE Stringify(_, _, _)
RECURSIVE StringifyElements(_, _, _, _)
RECURSIVE StringifyMembers(_, _, _, _)

\* JSON.stringify(value, null, gap), at nesting depth level
Stringify(v, gap, level) ==
  CASE v.t = "str" -> <<Q>> \o Quote(v.v) \o <<Q>>
    [] v.t = "num" -> NumStr(v.v)
    [] v.t = "null" -> <<"null">>
    [] v.t = "arr" ->
         IF v.v = <<>> THEN <<"[", "]">>
         ELSE <<"[">> \o StringifyElements(v.v, 1, gap, level + 1)
              \o Break(gap, level) \o <<"]">>
    [] v.t = "obj" ->
         IF v.v = <<>> THEN <<"{", "}">>
         ELSE <<"{">> \o StringifyMembers(v.v, 1, gap, level + 1)
              \o Break(gap, level) \o <<"}">>

StringifyElements(a, i, gap, level) ==
  IF i > Len(a) THEN <<>>
  ELSE (IF i > 1 THEN <<",">> ELSE <<>>) \o Break(gap, level)
       \o Stringify(a[i], gap, level) \o StringifyElements(a, i + 1, gap, level)

StringifyMembers(o, i, gap, level) ==
  IF i > Len(o) THEN <<>>
  ELSE (IF i > 1 THEN <<",">> ELSE <<>>) \o Break(gap, level)
       \o <<Q>> \o Quote(o[i].k) \o <<Q, ":">> \o (IF gap = 0 THEN <<>> ELSE <<SP>>)
       \o Stringify(o[i].v, gap, level) \o StringifyMembers(o, i + 1, gap, level)

\* JSON.stringify(value)
JSONStringify(v) == Stringify(v, 0, 0)

\* JSON.stringify(value, null, 2)
JSONStringify2(v) == Stringify(v, 2, 0)

\* property access on a parsed value: `${data.key}`; a missing property
\* renders as "undefined"
Prop(v, key) ==
  IF v.t = "obj" /\ \E i \in 1..Len(v.v) : v.v[i].k = key
  THEN LET i == CHOOSE i \in 1..Len(v.v) :
                  /\ v.v[i].k = key
                  /\ \A j \in (i + 1)..Len(v.v) : v.v[j].k /= key
       IN IF v.v[i].v.t = "str" THEN v.v[i].v.v ELSE JSONStringify(v.v[i].v)
  ELSE <<"undefined">>

(* ------------------------------ options ------------------------------- *)

\* an optional (or nullable) argument: absent/null, or present with a value
Absent == <<>>
Some(v) == <<v>>
IsSome(o) == Len(o) = 1
Get(o) == o[1]

(* ------------------------------- inputs ------------------------------- *)

\* longest list argument (accountIds, usernames, keys) a caller passes
MaxListLen == 2

Domains == {<<"acme.atlassian.net">>}
IssueKeys == {<<"PROJ-1">>}
\* the second id holds characters that a query string must escape
AccountIds == {<<"123">>, <<"a", "&", "b", SP, "c">>}
UserNames == {<<"mia">>, <<"zoe">>}
UserKeys == {<<"JIRAUSER1">>, <<"JIRAUSER2">>}
Offsets == {Absent, Some(0), Some(7)}
\* the second page size is above the maximum the parameter descriptions name
PageSizes == {Absent, Some(5000)}

AdfDoc == <<"{", Q, "type", Q, ":", Q, "doc", Q, ",", Q, "version", Q, ":", "1", "}">>
Descriptions == {Absent, Some(<<>>), Some(AdfDoc), Some(<<"plain", SP, "text">>)}

RECURSIVE ListsOver(_, _)
ListsOver(S, n) ==
  IF n = 0 THEN {<<>>}
  ELSE LET shorter == ListsOver(S, n - 1) IN
       shorter \cup {Append(l, e) : l \in {m \in shorter : Len(m) = n - 1}, e \in S}

SubtaskMarker == "Cannot delete an issue that has subtasks without specifying deleteSubtasks=true"

\* response bodies: a user array, a created issue, undecodable text, no
\* body, the subtask conflict of DELETE /issue, and a plain-text error
BodyUsers == <<"[", "{", Q, "accountId", Q, ":", Q, "1", Q, "}", "]">>
BodyIssue == <<"{", Q, "key", Q, ":", Q, "PROJ-2", Q, ",", Q, "self", Q, ":", Q, "https://acme/2", Q, "}">>
BodyMalformed == <<"{", "malformed json">>
BodyEmpty == <<>>
BodySubtasks == <<"{", Q, "errorMessages", Q, ":", "[", Q, SubtaskMarker, Q, "]", "}">>
BodyPlain == <<"Server error details text">>
Bodies == {BodyUsers, BodyIssue, BodyMalformed, BodyEmpty, BodySubtasks, BodyPlain}

Statuses == {200, 201, 204, 400, 403, 500}

StatusText(status) ==
  CASE status = 200 -> <<"OK">>
    [] status = 201 -> <<"Created">>
    [] status = 204 -> <<"No Content">>
    [] status = 400 -> <<"Bad Request">>
    [] status = 403 -> <<"Forbidden">>
    [] OTHER -> <<"Internal Server Error">>

\* Response.ok
IsOk(status) == status >= 200 /\ status <= 299

\* what fetch can resolve to.  single: a Response of the fetch API, whose
\* body can be read once; otherwise a test double (a plain object whose
\* json and text closures can be called any number of times)
Responses ==
  {[ok |-> IsOk(st), status |-> st, statusText |-> StatusText(st), body |-> bd, single |-> sg] :
     st \in Statuses, bd \in Bodies, sg \in BOOLEAN}

(* ------------------------------- builds ------------------------------- *)

\* the program texts of the repository: src/main.ts, part_001, and the two
\* programs of part_000; the second of these carries an unresolved merge
\* conflict, which resolves to its upstream side or to its stashed side
Builds == {"main", "part1", "part0a", "part0b_upstream", "part0b_stashed"}

IsPart0b(b) == b \in {"part0b_upstream", "part0b_stashed"}

\* the names passed to server.tool, in registration order
ToolsOf(b) ==
  CASE b = "main" ->
         <<"getTransitions", "postTransitionIssue", "getDetailIssues", "get_comments", "add_comment">>
    [] b = "part1" ->
         <<"createIssue", "assignIssue", "deleteIssue", "getTransitions", "postTransitionIssue",
           "getIssue", "get_comments", "add_comment", "editIssue">>
    [] b = "part0a" ->
         <<"createIssue", "getAllUsers", "getUserGroups", "getUserEmailBulk", "getUserEmail",
           "getAccountIdsForUsers", "getUsersBulk", "getUser", "assignIssue", "deleteIssue",
           "getTransitions", "postTransitionIssue", "getIssue", "get_comments", "add_comment",
           "editIssue">>
    [] b = "part0b_upstream" ->
         <<"createIssue", "getUserGroups", "findUsers", "getUser", "assignIssue", "deleteIssue",
           "getTransitions", "postTransitionIssue", "getIssue", "get_comments", "add_comment",
           "editIssue">>
    [] b = "part0b_stashed" ->
         <<"createIssue", "getUserGroups", "findUsers", "getUser", "assignIssue", "deleteIssue",
           "getTransitions", "postTransitionIssue", "getIssue", "get_comments", "add_comment",
           "delete_comment", "get_dashboard">>

Range(f) == {f[i] : i \in DOMAIN f}

(* ------------------------- parameter schemas -------------------------- *)

IssueArgs == [domain : Domains, issueKey : IssueKeys]

\* the argument objects a caller sends to a tool
RawArgs(b, tool) ==
  CASE tool = "createIssue" ->
         [domain : Domains, projectKey : {<<"PROJ">>}, summary : {<<"Fix login">>},
          description : Descriptions, issueType : {<<"Bug">>}]
    [] tool = "editIssue" ->
         [domain : Domains, issueIdOrKey : IssueKeys,
          fieldsToUpdate : {JObj(<<Member(<<"summary">>, JStr(<<"New summary">>))>>)}]
    [] tool = "deleteIssue" ->
         [domain : Domains, issueIdOrKey : IssueKeys,
          deleteSubtasks : {Absent, Some(TRUE), Some(FALSE)}]
    [] tool = "assignIssue" ->
         [domain : Domains, issueIdOrKey : IssueKeys,
          accountId : {Absent, Some(<<"-1">>), Some(<<"123">>)}]
    [] tool \in {"getIssue", "getDetailIssues", "get_comments"} -> IssueArgs
    [] tool = "getTransitions" -> [domain : Domains, issue : IssueKeys]
    [] tool = "postTransitionIssue" ->
         [domain : Domains, issueKey : IssueKeys, transitionId : {<<"31">>}]
    [] tool = "add_comment" ->
         [domain : Domains, issueKey : IssueKeys,
          comment : {<<"Looks", SP, "good">>, <<"say", SP, Q, "hi", Q, NL, "bye">>}]
    [] tool = "delete_comment" ->
         [domain : Domains, issueKey : IssueKeys, commentId : {<<"10001">>}]
    [] tool = "get_dashboard" -> [domain : Domains]
    [] tool = "getUser" ->
         IF IsPart0b(b) THEN [domain : Domains, accountId : AccountIds]
         ELSE [domain : Domains, accountId : AccountIds, expand : {Absent, Some(<<"groups">>)}]
    [] tool \in {"getUserGroups", "getUserEmail"} -> [domain : Domains, accountId : AccountIds]
    [] tool = "findUsers" -> [domain : Domains, query : AccountIds]
    [] tool = "getAllUsers" -> [domain : Domains, startAt : Offsets, maxResults : PageSizes]
    [] tool = "getUsersBulk" ->
         [domain : Domains, accountIds : ListsOver(AccountIds, MaxListLen),
          startAt : Offsets, maxResults : PageSizes]
    [] tool = "getUserEmailBulk" ->
         [domain : Domains, accountIds : ListsOver(AccountIds, MaxListLen)]
    [] tool = "getAccountIdsForUsers" ->
         [domain : Domains,
          usernames : {Absent} \cup {Some(l) : l \in ListsOver(UserNames, MaxListLen)},
          keys : {Absent} \cup {Some(l) : l \in ListsOver(UserKeys, MaxListLen)},
          startAt : Offsets, maxResults : PageSizes]

\* z.number().optional().default(d) and z.boolean().optional().default(d)
WithDefault(o, d) == IF IsSome(o) THEN Get(o) ELSE d

\* .refine of getAccountIdsForUsers: usernames or keys is a non-empty array
HasUsernamesOrKeys(a) ==
  \/ IsSome(a.usernames) /\ Len(Get(a.usernames)) > 0
  \/ IsSome(a.keys) /\ Len(Get(a.keys)) > 0

\* a schema without the .refine of getAccountIdsForUsers
SchemaAccepts_lax(tool, a) ==
  CASE tool \in {"getUsersBulk", "getUserEmailBulk"} -> Len(a.accountIds) >= 1
    [] OTHER -> TRUE

\* does the tool's schema accept the argument object
SchemaAccepts(tool, a) ==
  CASE tool \in {"getUsersBulk", "getUserEmailBulk"} -> Len(a.accountIds) >= 1
    [] tool = "getAccountIdsForUsers" -> HasUsernamesOrKeys(a)
    [] OTHER -> TRUE

\* parsed arguments with maxResults held to the documented maximum of 1000
Parsed_clamped(tool, a) ==
  CASE tool = "deleteIssue" ->
         [a EXCEPT !.deleteSubtasks = WithDefault(a.deleteSubtasks, FALSE)]
    [] tool \in {"getAllUsers", "getUsersBulk", "getAccountIdsForUsers"} ->
         [a EXCEPT !.startAt = WithDefault(a.startAt, 0),
                   !.maxResults = IF WithDefault(a.maxResults, 50) > 1000 THEN 1000
                                  ELSE WithDefault(a.maxResults, 50)]
    [] OTHER -> a

\* the parsed arguments a handler receives: defaults filled in
Parsed(tool, a) ==
  CASE tool = "deleteIssue" ->
         [a EXCEPT !.deleteSubtasks = WithDefault(a.deleteSubtasks, FALSE)]
    [] tool \in {"getAllUsers", "getUsersBulk", "getAccountIdsForUsers"} ->
         [a EXCEPT !.startAt = WithDefault(a.startAt, 0),
                   !.maxResults = WithDefault(a.maxResults, 50)]
    [] OTHER -> a

(* ------------------------------ requests ------------------------------ *)

\* URLSearchParams.toString(): application/x-www-form-urlencoded
FormEncode(s) ==
  [i \in 1..Len(s) |->
     CASE s[i] = SP -> "+" [] s[i] = "&" -> "%26" [] s[i] = "," -> "%2C" [] OTHER -> s[i]]

\* encodeURIComponent
EncodeURIComponent(s) ==
  [i \in 1..Len(s) |->
     CASE s[i] = SP -> "%20" [] s[i] = "&" -> "%26" [] s[i] = "," -> "%2C" [] OTHER -> s[i]]

Param(k, v) == [k |-> k, v |-> v]

\* params.set(key, e) for each e of a list: the last one stays
AppendAll_set(key, list) ==
  IF list = <<>> THEN <<>> ELSE <<Param(key, list[Len(list)])>>

\* params.append(key, e) for each e of a list, in list order
AppendAll(key, list) == [i \in 1..Len(list) |-> Param(key, list[i])]

\* URLSearchParams.toString() of a list of (key, value) pairs
RECURSIVE SearchParams(_)
SearchParams(ps) ==
  IF ps = <<>> THEN <<>>
  ELSE <<ps[1].k, "=">> \o FormEncode(ps[1].v)
       \o (IF Len(ps) > 1 THEN <<"&">> ELSE <<>>) \o SearchParams(Tail(ps))

\* `https://${domain}/rest/api/3/...`
Api(a, path) == <<"https://">> \o a.domain \o <<"/rest/api/3/">> \o path

\* Buffer.from(text).toString('base64')
Base64(s) == <<"base64(">> \o s \o <<")">>

\* process.env.NAME || ""
EnvOr(o) == IF IsSome(o) THEN Get(o) ELSE <<>>

\* the module constant headers
Headers(e) ==
  [Authorization |-> <<"Basic ">> \o Base64(EnvOr(e.JIRA_EMAIL) \o <<":">> \o EnvOr(e.JIRA_API_TOKEN)),
   Accept |-> <<"application/json">>]

\* { ...headers, 'Content-Type': 'application/json' }
WithContentType(h) ==
  [n \in DOMAIN h \cup {"Content-Type"} |->
     IF n = "Content-Type" THEN <<"application/json">> ELSE h[n]]

\* if (description): present and not the empty string
HasDescription(a) == IsSome(a.description) /\ Get(a.description) /= <<>>

\* a request body that carries the description string as it came, unparsed
createIssue_requestBody_unparsed(a) ==
  JObj(<<Member(<<"fields">>,
      JObj(<<Member(<<"project">>, JObj(<<Member(<<"key">>, JStr(a.projectKey))>>)),
             Member(<<"summary">>, JStr(a.summary)),
             Member(<<"issuetype">>, JObj(<<Member(<<"name">>, JStr(a.issueType))>>))>>
           \o (IF HasDescription(a)
               THEN <<Member(<<"description">>, JStr(Get(a.description)))>>
               ELSE <<>>)))>>)

\* requestBody of createIssue
createIssue_requestBody(a) ==
  JObj(<<Member(<<"fields">>,
      JObj(<<Member(<<"project">>, JObj(<<Member(<<"key">>, JStr(a.projectKey))>>)),
             Member(<<"summary">>, JStr(a.summary)),
             Member(<<"issuetype">>, JObj(<<Member(<<"name">>, JStr(a.issueType))>>))>>
           \o (IF HasDescription(a)
               THEN <<Member(<<"description">>, JSONParse(Get(a.description)).val)>>
               ELSE <<>>)))>>)

\* a body that carries the comment as a plain string, without the document
add_comment_body_plain(a) == JObj(<<Member(<<"body">>, JStr(a.comment))>>)

\* the body of add_comment: the fixed document around the comment text
add_comment_body(a) ==
  JObj(<<Member(<<"body">>,
      JObj(<<Member(<<"content">>,
               JArr(<<JObj(<<Member(<<"content">>,
                               JArr(<<JObj(<<Member(<<"text">>, JStr(a.comment)),
                                             Member(<<"type">>, JStr(<<"text">>))>>)>>)),
                             Member(<<"type">>, JStr(<<"paragraph">>))>>)>>)),
             Member(<<"type">>, JStr(<<"doc">>)),
             Member(<<"version">>, JNum(1))>>))>>)

Method(tool) ==
  CASE tool \in {"createIssue", "postTransitionIssue", "add_comment"} -> "POST"
    [] tool \in {"editIssue", "assignIssue"} -> "PUT"
    [] tool \in {"deleteIssue", "delete_comment"} -> "DELETE"
    [] OTHER -> "GET"

\* the first argument of fetch
Url(b, tool, a) ==
  CASE tool = "createIssue" -> Api(a, <<"issue">>)
    [] tool \in {"editIssue", "deleteIssue"} ->
         Api(a, <<"issue/">> \o a.issueIdOrKey)
         \o (IF tool = "deleteIssue" /\ a.deleteSubtasks THEN <<"?deleteSubtasks=true">> ELSE <<>>)
    [] tool = "assignIssue" -> Api(a, <<"issue/">> \o a.issueIdOrKey \o <<"/assignee">>)
    [] tool \in {"getIssue", "getDetailIssues"} -> Api(a, <<"issue/">> \o a.issueKey)
    [] tool = "getTransitions" -> Api(a, <<"issue/">> \o a.issue \o <<"/transitions">>)
    [] tool = "postTransitionIssue" -> Api(a, <<"issue/">> \o a.issueKey \o <<"/transitions">>)
    [] tool \in {"get_comments", "add_comment"} -> Api(a, <<"issue/">> \o a.issueKey \o <<"/comment">>)
    [] tool = "delete_comment" ->
         Api(a, <<"issue/">> \o a.issueKey \o <<"/comment/">> \o a.commentId)
    [] tool = "get_dashboard" -> Api(a, <<"dashboard">>)
    [] tool = "getUser" ->
         IF IsPart0b(b) THEN Api(a, <<"user?accountId=">> \o a.accountId)
         ELSE Api(a, <<"user?">>
                \o SearchParams(<<Param("accountId", a.accountId)>>
                     \o (IF IsSome(a.expand) /\ Get(a.expand) /= <<>>
                         THEN <<Param("expand", Get(a.expand))>> ELSE <<>>)))
    [] tool = "getUserGroups" ->
         IF IsPart0b(b) THEN Api(a, <<"user/groups?accountId=">> \o a.accountId)
         ELSE Api(a, <<"user/groups?">> \o SearchParams(<<Param("accountId", a.accountId)>>))
    [] tool = "findUsers" -> Api(a, <<"user/search?query=">> \o EncodeURIComponent(a.query))
    [] tool = "getUserEmail" ->
         Api(a, <<"user/email?">> \o SearchParams(<<Param("accountId", a.accountId)>>))
    [] tool = "getUserEmailBulk" ->
         Api(a, <<"user/email/bulk?">> \o SearchParams(AppendAll("accountId", a.accountIds)))
    [] tool = "getAllUsers" ->
         Api(a, <<"users/search?">>
           \o SearchParams(<<Param("startAt", NumStr(a.startAt)),
                             Param("maxResults", NumStr(a.maxResults))>>))
    [] tool = "getUsersBulk" ->
         Api(a, <<"user/bulk?">>
           \o SearchParams(AppendAll("accountId", a.accountIds)
                \o <<Param("startAt", NumStr(a.startAt)),
                     Param("maxResults", NumStr(a.maxResults))>>))
    [] tool = "getAccountIdsForUsers" ->
         Api(a, <<"user/bulk/migration?">>
           \o SearchParams((IF IsSome(a.usernames) THEN AppendAll("username", Get(a.usernames)) ELSE <<>>)
                \o (IF IsSome(a.keys) THEN AppendAll("key", Get(a.keys)) ELSE <<>>)
                \o <<Param("startAt", NumStr(a.startAt)),
                     Param("maxResults", NumStr(a.maxResults))>>))

\* the body option of fetch, when the handler sets one
Body(tool, a) ==
  CASE tool = "createIssue" -> Some(JSONStringify(createIssue_requestBody(a)))
    [] tool = "editIssue" -> Some(JSONStringify(JObj(<<Member(<<"fields">>, a.fieldsToUpdate)>>)))
    [] tool = "assignIssue" ->
         Some(JSONStringify(JObj(<<Member(<<"accountId">>,
                IF IsSome(a.accountId) THEN JStr(Get(a.accountId)) ELSE JNull)>>)))
    [] tool = "postTransitionIssue" ->
         Some(JSONStringify(JObj(<<Member(<<"transition">>,
                JObj(<<Member(<<"id">>, JStr(a.transitionId))>>))>>)))
    [] tool = "add_comment" -> Some(JSONStringify(add_comment_body(a)))
    [] OTHER -> Absent

\* Content-Type set by the POST handlers only
SetsContentType_postOnly(tool) ==
  tool \in {"createIssue", "postTransitionIssue", "add_comment"}

\* the handlers that spread headers and add Content-Type
SetsContentType(tool) ==
  tool \in {"createIssue", "assignIssue", "postTransitionIssue", "add_comment", "editIssue"}

\* the arguments of the handler's call of fetch
Request(b, tool, a, h) ==
  [url |-> Url(b, tool, a),
   method |-> Method(tool),
   headers |-> IF SetsContentType(tool) THEN WithContentType(h) ELSE h,
   body |-> Body(tool, a)]

(* ------------------------------ handlers ------------------------------ *)

\* what a handler does next: return a result, let an exception escape,
\* call fetch, or await a read of the response body
Return(text) == [op |-> "return", text |-> text]
Throw(error) == [op |-> "throw", error |-> error]
Fetch(req) == [op |-> "fetch", request |-> req]
ReadJson == [op |-> "json"]
ReadText(stage) == [op |-> "text", stage |-> stage]

\* handlers that return the bare status text on a non-ok response
TerseTools ==
  {"getTransitions", "postTransitionIssue", "getIssue", "getDetailIssues", "get_comments",
   "add_comment", "delete_comment", "get_dashboard"}

\* handlers that answer an ok response without reading its body
NoBodyTools == {"postTransitionIssue", "add_comment", "delete_comment"}

\* handlers that branch on response.status === 204
NoContentTools == {"editIssue", "deleteIssue", "assignIssue"}

\* handlers that await response.json() outside any try block
PlainJsonTools ==
  {"getTransitions", "getIssue", "getDetailIssues", "get_comments", "get_dashboard", "createIssue"}

\* handlers of the second program of part_000 that wrap response.json()
\* in try/catch and read response.text() in the catch block
TryJsonTools(b) == IF IsPart0b(b) THEN {"getUser", "findUsers", "getUserGroups"} ELSE {}

\* createIssue sending the request without the description it cannot parse
Start_unchecked(b, tool, a, h) ==
  IF tool = "createIssue" /\ HasDescription(a) /\ ~JSONParse(Get(a.description)).ok
  THEN Fetch(Request(b, tool, [a EXCEPT !.description = Absent], h))
  ELSE Fetch(Request(b, tool, a, h))

\* createIssue calling JSON.parse outside a try block
Start_uncaught(b, tool, a, h) ==
  IF tool = "createIssue" /\ HasDescription(a) /\ ~JSONParse(Get(a.description)).ok
  THEN Throw(JSONParse(Get(a.description)).message)
  ELSE Fetch(Request(b, tool, a, h))

\* the handler up to its first await
Start(b, tool, a, h) ==
  IF tool = "createIssue" /\ HasDescription(a) /\ ~JSONParse(Get(a.description)).ok
  THEN Return(<<"Invalid ADF JSON provided for description: ">>
              \o JSONParse(Get(a.description)).message)
  ELSE Fetch(Request(b, tool, a, h))

\* the words between "Error " and the colon of a detailed error text
ErrorSubject(tool, a) ==
  CASE tool = "createIssue" -> <<"Error creating issue">>
    [] tool = "assignIssue" -> <<"Error assigning issue ">> \o a.issueIdOrKey
    [] tool = "deleteIssue" -> <<"Error deleting issue ">> \o a.issueIdOrKey
    [] tool = "editIssue" -> <<"Error editing issue ">> \o a.issueIdOrKey
    [] tool = "getAllUsers" -> <<"Error retrieving all users">>
    [] tool = "getUserGroups" -> <<"Error retrieving groups for user ">> \o a.accountId
    [] tool = "getUserEmailBulk" -> <<"Error retrieving bulk emails">>
    [] tool = "getUserEmail" -> <<"Error retrieving email for user ">> \o a.accountId
    [] tool = "getAccountIdsForUsers" -> <<"Error retrieving account IDs">>
    [] tool = "getUsersBulk" -> <<"Error retrieving bulk users">>
    [] tool = "getUser" -> <<"Error retrieving user ">> \o a.accountId
    [] tool = "findUsers" -> <<"Error finding users">>

ForbiddenNote ==
  " Note: A 403 Forbidden error for this API can indicate that the app has not been approved by Atlassian to access email addresses, or specific app permissions are missing."

\* the override applied on the marker alone, whatever the status
deleteIssue_userMessage_anyStatus(a, r, errorText) ==
  IF Includes(errorText, <<SubtaskMarker>>)
  THEN <<"Error deleting issue ">> \o a.issueIdOrKey
       \o <<": This issue has subtasks. To delete it, set the 'deleteSubtasks' parameter to true.">>
  ELSE <<"Error deleting issue ">> \o a.issueIdOrKey \o <<": ">> \o r.statusText
       \o <<". Status: ">> \o NumStr(r.status) \o <<".">>
       \o (IF errorText /= <<>> THEN <<" Details: ">> \o errorText ELSE <<>>)

\* userMessage with the Details part appended whether or not there is text
deleteIssue_userMessage_alwaysDetails(a, r, errorText) ==
  IF r.status = 400 /\ Includes(errorText, <<SubtaskMarker>>)
  THEN <<"Error deleting issue ">> \o a.issueIdOrKey
       \o <<": This issue has subtasks. To delete it, set the 'deleteSubtasks' parameter to true.">>
  ELSE <<"Error deleting issue ">> \o a.issueIdOrKey \o <<": ">> \o r.statusText
       \o <<". Status: ">> \o NumStr(r.status) \o <<".">>
       \o <<" Details: ">> \o errorText

\* userMessage of deleteIssue on a non-ok response
deleteIssue_userMessage(a, r, errorText) ==
  IF r.status = 400 /\ Includes(errorText, <<SubtaskMarker>>)
  THEN <<"Error deleting issue ">> \o a.issueIdOrKey
       \o <<": This issue has subtasks. To delete it, set the 'deleteSubtasks' parameter to true.">>
  ELSE <<"Error deleting issue ">> \o a.issueIdOrKey \o <<": ">> \o r.statusText
       \o <<". Status: ">> \o NumStr(r.status) \o <<".">>
       \o (IF errorText /= <<>> THEN <<" Details: ">> \o errorText ELSE <<>>)

\* an error text that leaves the body out
ErrorText_noDetails(tool, a, r, errorText) ==
  CASE tool = "createIssue" -> <<"Error creating issue: ">> \o r.statusText
    [] tool = "deleteIssue" -> deleteIssue_userMessage(a, r, errorText)
    [] OTHER ->
         ErrorSubject(tool, a) \o <<": ">> \o r.statusText \o <<". Status: ">> \o NumStr(r.status)

\* an error text that embeds the body as a JSON string literal
ErrorText_quoted(tool, a, r, errorText) ==
  CASE tool = "createIssue" ->
         <<"Error creating issue: ">> \o r.statusText \o <<". Details: ">> \o <<Q>> \o errorText \o <<Q>>
    [] tool = "deleteIssue" -> deleteIssue_userMessage(a, r, errorText)
    [] OTHER ->
         ErrorSubject(tool, a) \o <<": ">> \o r.statusText \o <<". Status: ">> \o NumStr(r.status)
         \o <<". Details: ">> \o <<Q>> \o errorText \o <<Q>>
         \o (IF tool \in {"getUserEmail", "getUserEmailBulk"} /\ r.status = 403
             THEN <<ForbiddenNote>> ELSE <<>>)

\* an error text with the permission note on every non-ok status
ErrorText_noteAlways(tool, a, r, errorText) ==
  CASE tool = "createIssue" ->
         <<"Error creating issue: ">> \o r.statusText \o <<". Details: ">> \o errorText
    [] tool = "deleteIssue" -> deleteIssue_userMessage(a, r, errorText)
    [] OTHER ->
         ErrorSubject(tool, a) \o <<": ">> \o r.statusText \o <<". Status: ">> \o NumStr(r.status)
         \o <<". Details: ">> \o errorText
         \o (IF tool \in {"getUserEmail", "getUserEmailBulk"} THEN <<ForbiddenNote>> ELSE <<>>)

\* the text a handler returns after reading the body of a non-ok response
ErrorText(tool, a, r, errorText) ==
  CASE tool = "createIssue" ->
         <<"Error creating issue: ">> \o r.statusText \o <<". Details: ">> \o errorText
    [] tool = "deleteIssue" -> deleteIssue_userMessage(a, r, errorText)
    [] OTHER ->
         ErrorSubject(tool, a) \o <<": ">> \o r.statusText \o <<". Status: ">> \o NumStr(r.status)
         \o <<". Details: ">> \o errorText
         \o (IF tool \in {"getUserEmail", "getUserEmailBulk"} /\ r.status = 403
             THEN <<ForbiddenNote>> ELSE <<>>)

\* the unexpected-status text without the body that was read
UnexpectedText_noBody(tool, a, r, text) ==
  (CASE tool = "getAllUsers" -> <<"Retrieving all users">>
     [] tool = "getUserGroups" -> <<"Group retrieval for user ">> \o a.accountId
     [] tool = "getUserEmailBulk" -> <<"Bulk email retrieval">>
     [] tool = "getUserEmail" -> <<"Email retrieval for user ">> \o a.accountId
     [] tool = "getAccountIdsForUsers" -> <<"Account ID retrieval">>
     [] tool = "getUsersBulk" -> <<"Bulk user retrieval">>
     [] tool = "getUser" -> <<"User retrieval for ">> \o a.accountId)
  \o <<" resulted in an unexpected status: ">> \o NumStr(r.status) \o <<".">>

\* the text for an ok response whose status is not 200 (first program of
\* part_000), after reading the body as text
UnexpectedText(tool, a, r, text) ==
  (CASE tool = "getAllUsers" -> <<"Retrieving all users">>
     [] tool = "getUserGroups" -> <<"Group retrieval for user ">> \o a.accountId
     [] tool = "getUserEmailBulk" -> <<"Bulk email retrieval">>
     [] tool = "getUserEmail" -> <<"Email retrieval for user ">> \o a.accountId
     [] tool = "getAccountIdsForUsers" -> <<"Account ID retrieval">>
     [] tool = "getUsersBulk" -> <<"Bulk user retrieval">>
     [] tool = "getUser" -> <<"User retrieval for ">> \o a.accountId)
  \o <<" resulted in an unexpected status: ">> \o NumStr(r.status) \o <<". Response: ">> \o text

\* the subject of "Error parsing JSON response for ..."
ParseSubject(tool, a) ==
  CASE tool = "getUser" -> <<"user ">> \o a.accountId
    [] tool = "findUsers" -> <<"user search">>
    [] tool = "getUserGroups" -> <<"user groups">>

\* the text of the catch block around response.json()
ParseErrorText(tool, a, message, responseText) ==
  <<"Error parsing JSON response for ">> \o ParseSubject(tool, a) \o <<". Details: ">> \o message
  \o <<". Raw response: ">> \o responseText

\* the sentence about subtasks whatever deleteSubtasks is
SubtasksSuffix_always(a) == <<" Subtasks were also deleted.">>

SubtasksSuffix(a) == IF a.deleteSubtasks THEN <<" Subtasks were also deleted.">> ELSE <<>>

\* successMessage without the branch for the default user
assignIssue_successMessage_noDefault(a) ==
  <<"Issue ">> \o a.issueIdOrKey \o <<" in domain ">> \o a.domain
  \o (IF ~IsSome(a.accountId) THEN <<" was successfully unassigned.">>
      ELSE <<" was successfully assigned to user ">> \o Get(a.accountId) \o <<".">>)

\* successMessage of assignIssue
assignIssue_successMessage(a) ==
  <<"Issue ">> \o a.issueIdOrKey \o <<" in domain ">> \o a.domain
  \o (IF ~IsSome(a.accountId) THEN <<" was successfully unassigned.">>
      ELSE IF Get(a.accountId) = <<"-1">> THEN <<" was successfully assigned to the default user.">>
      ELSE <<" was successfully assigned to user ">> \o Get(a.accountId) \o <<".">>)

\* the text a handler returns for an ok response without reading the body
NoReadText(tool, a, r) ==
  CASE tool = "postTransitionIssue" ->
         <<"Transitioned issue ">> \o a.issueKey \o <<" to transition ID ">> \o a.transitionId
         \o <<" in workspace ">> \o a.domain
    [] tool = "add_comment" ->
         <<"Added comment to issue ">> \o a.issueKey \o <<" in domain ">> \o a.domain
    [] tool = "delete_comment" ->
         <<"Deleted comment ">> \o a.commentId \o <<" from issue ">> \o a.issueKey
         \o <<" in domain ">> \o a.domain
    [] tool = "editIssue" ->
         IF r.status = 204
         THEN <<"Issue ">> \o a.issueIdOrKey \o <<" in domain ">> \o a.domain
              \o <<" was successfully updated.">>
         ELSE <<"Issue ">> \o a.issueIdOrKey \o <<" in domain ">> \o a.domain
              \o <<" updated. Status: ">> \o NumStr(r.status) \o <<".">>
    [] tool = "deleteIssue" ->
         IF r.status = 204
         THEN <<"Issue ">> \o a.issueIdOrKey \o <<" in domain ">> \o a.domain
              \o <<" was successfully deleted.">> \o SubtasksSuffix(a)
         ELSE <<"Issue ">> \o a.issueIdOrKey \o <<" in domain ">> \o a.domain
              \o <<" deleted. Status: ">> \o NumStr(r.status) \o <<".">> \o SubtasksSuffix(a)
    [] tool = "assignIssue" ->
         IF r.status = 204 THEN assignIssue_successMessage(a)
         ELSE <<"Issue ">> \o a.issueIdOrKey \o <<" assignment updated in domain ">> \o a.domain
              \o <<". Status: ">> \o NumStr(r.status) \o <<".">>

\* the sentence some handlers put before the pretty-printed JSON
JsonPrefix(tool, a) ==
  CASE tool = "getTransitions" -> <<"Issues for the workspace ">> \o a.domain \o <<": ">>
    [] tool \in {"getIssue", "getDetailIssues"} ->
         <<"The details for an issue from domain ">> \o a.domain \o <<": ">>
    [] tool = "get_comments" -> <<"All comments for an issue ">> \o a.domain \o <<": ">>
    [] tool = "get_dashboard" -> <<"All dashboards for the workspace ">> \o a.domain \o <<": ">>
    [] OTHER -> <<>>

\* the data serialized without indentation
JsonText_compact(tool, a, val) ==
  IF tool = "createIssue"
  THEN <<"Successfully created issue ">> \o Prop(val, <<"key">>) \o <<". URL: ">>
       \o Prop(val, <<"self">>)
  ELSE JsonPrefix(tool, a) \o JSONStringify(val)

\* the text a handler returns once response.json() gave a value
JsonText(tool, a, val) ==
  IF tool = "createIssue"
  THEN <<"Successfully created issue ">> \o Prop(val, <<"key">>) \o <<". URL: ">>
       \o Prop(val, <<"self">>)
  ELSE JsonPrefix(tool, a) \o JSONStringify2(val)

\* a handler that sends the request again after a non-ok response
OnResponse_retry(b, tool, a, r) ==
  IF ~r.ok THEN Fetch(Request(b, tool, a, Headers([JIRA_EMAIL |-> Absent, JIRA_API_TOKEN |-> Absent])))
  ELSE IF tool \in NoBodyTools \cup NoContentTools THEN Return(NoReadText(tool, a, r))
  ELSE IF tool \in PlainJsonTools \cup TryJsonTools(b) THEN ReadJson
  ELSE IF r.status = 200 THEN ReadJson
  ELSE ReadText("unexpected")

\* a handler that decodes the body of a 204 response before confirming
OnResponse_decodesNoContent(b, tool, a, r) ==
  IF ~r.ok THEN
    IF tool \in TerseTools THEN Return(r.statusText) ELSE ReadText("error")
  ELSE IF tool \in NoContentTools /\ r.status = 204 THEN ReadJson
  ELSE IF tool \in NoBodyTools \cup NoContentTools THEN Return(NoReadText(tool, a, r))
  ELSE IF tool \in PlainJsonTools \cup TryJsonTools(b) THEN ReadJson
  ELSE IF r.status = 200 THEN ReadJson
  ELSE ReadText("unexpected")

\* terse handlers returning the line they log, not the bare status text
OnResponse_terseLogLine(b, tool, a, r) ==
  IF ~r.ok THEN
    IF tool \in TerseTools THEN Return(<<"Error: ">> \o r.statusText) ELSE ReadText("error")
  ELSE IF tool \in NoBodyTools \cup NoContentTools THEN Return(NoReadText(tool, a, r))
  ELSE IF tool \in PlainJsonTools \cup TryJsonTools(b) THEN ReadJson
  ELSE IF r.status = 200 THEN ReadJson
  ELSE ReadText("unexpected")

\* the handler from the resolution of fetch to its next await or return
OnResponse(b, tool, a, r) ==
  IF ~r.ok THEN
    IF tool \in TerseTools THEN Return(r.statusText) ELSE ReadText("error")
  ELSE IF tool \in NoBodyTools \cup NoContentTools THEN Return(NoReadText(tool, a, r))
  ELSE IF tool \in PlainJsonTools \cup TryJsonTools(b) THEN ReadJson
  ELSE IF r.status = 200 THEN ReadJson
  ELSE ReadText("unexpected")

\* the handler after response.json() settled: out is the value, or the
\* error it rejected with
OnJson(b, tool, a, r, out) ==
  IF out.ok THEN Return(JsonText(tool, a, out.val))
  ELSE IF tool \in TryJsonTools(b) THEN ReadText("catch")
  ELSE Throw(out.message)

\* the handler after response.text() settled; e is the error caught before
\* the read, if any
OnText(b, tool, a, r, stage, out, e) ==
  IF ~out.ok THEN Throw(out.message)
  ELSE CASE stage = "error" -> Return(ErrorText(tool, a, r, out.val))
         [] stage = "unexpected" -> Return(UnexpectedText(tool, a, r, out.val))
         [] stage = "catch" -> Return(ParseErrorText(tool, a, e, out.val))

(* --------------------------- response bodies --------------------------- *)

BodyUsed == <<"Body is unusable: Body has already been read">>

\* response.text(): rejects on a Response whose body was read before
TextOf(r, reads) ==
  IF r.single /\ reads /= <<>> THEN [ok |-> FALSE, message |-> BodyUsed]
  ELSE [ok |-> TRUE, val |-> r.body]

\* response.json(): rejects on a used body and on undecodable text
JsonOf(r, reads) ==
  IF r.single /\ reads /= <<>> THEN [ok |-> FALSE, message |-> BodyUsed]
  ELSE LET p == JSONParse(r.body) IN
       IF p.ok THEN [ok |-> TRUE, val |-> p.val] ELSE [ok |-> FALSE, message |-> p.message]

(* -------------------------------- state -------------------------------- *)

VARIABLES
  build,      \* which program text runs
  env,        \* process.env: JIRA_EMAIL and JIRA_API_TOKEN, each set or not
  direct,     \* require.main === module (the second program of part_000)
  phase,      \* position of the top-level script
  headers,    \* the module constant headers, once defined
  registered, \* the names passed to server.tool so far, in order
  connected,  \* server.connect(transport) was called
  pc,         \* per invocation: position of the handler
  call,       \* per invocation: tool and argument object
  requests,   \* per invocation: the calls of fetch made, in order
  response,   \* per invocation: what fetch resolved to
  reads,      \* per invocation: the body reads attempted, in order
  stage,      \* per invocation: which response.text() is awaited
  caught,     \* per invocation: message of the error the catch block holds
  result      \* per invocation: how the invocation ended

vars ==
  <<build, env, direct, phase, headers, registered, connected,
    pc, call, requests, response, reads, stage, caught, result>>

procVars == <<build, env, direct, phase, headers, registered, connected>>

\* the invocations in flight at once
Slots == {1}

\* most calls of fetch one invocation is followed for
MaxFetches == 2

EnvValues ==
  [JIRA_EMAIL : {Absent, Some(<<"me@acme.com">>)}, JIRA_API_TOKEN : {Absent, Some(<<"s3cret">>)}]

\* !JIRA_EMAIL || !JIRA_API_TOKEN
MissingCredentials(e) == EnvOr(e.JIRA_EMAIL) = <<>> \/ EnvOr(e.JIRA_API_TOKEN) = <<>>

NoCall == [tool |-> "none", raw |-> <<>>, args |-> <<>>]
NoResponse == [ok |-> FALSE, status |-> 0, statusText |-> <<>>, body |-> <<>>, single |-> TRUE]
Pending == [kind |-> "pending"]
\* a result whose element is typed 'json'
Returned_json(text) == [kind |-> "returned", content |-> <<[type |-> "json", text |-> text]>>]

Returned(text) == [kind |-> "returned", content |-> <<[type |-> "text", text |-> text]>>]
Threw(error) == [kind |-> "threw", error |-> error]
Rejected == [kind |-> "rejected"]

Init ==
  /\ build \in Builds
  /\ env \in EnvValues
  /\ direct \in (IF IsPart0b(build) THEN BOOLEAN ELSE {TRUE})
  /\ phase = "boot"
  /\ headers = Absent
  /\ registered = <<>>
  /\ connected = FALSE
  /\ pc = [s \in Slots |-> "idle"]
  /\ call = [s \in Slots |-> NoCall]
  /\ requests = [s \in Slots |-> <<>>]
  /\ response = [s \in Slots |-> NoResponse]
  /\ reads = [s \in Slots |-> <<>>]
  /\ stage = [s \in Slots |-> "none"]
  /\ caught = [s \in Slots |-> <<>>]
  /\ result = [s \in Slots |-> Pending]

invVars == <<pc, call, requests, response, reads, stage, caught, result>>

(* ------------------------------- startup ------------------------------- *)

\* the top of the script: the credential check (absent from the second
\* program of part_000), then the server and the headers constant
Boot ==
  /\ phase = "boot"
  /\ IF ~IsPart0b(build) /\ MissingCredentials(env)
     THEN phase' = "exited" /\ UNCHANGED headers
     ELSE phase' = "register" /\ headers' = Some(Headers(env))
  /\ UNCHANGED <<build, env, direct, registered, connected>>
  /\ UNCHANGED invVars

\* the next server.tool call of the script
RegisterTool ==
  /\ phase = "register"
  /\ Len(registered) < Len(ToolsOf(build))
  /\ registered' = Append(registered, ToolsOf(build)[Len(registered) + 1])
  /\ UNCHANGED <<build, env, direct, phase, headers, connected>>
  /\ UNCHANGED invVars

\* after the last server.tool call: the main execution block of the second
\* program of part_000 (skipped when imported), else straight to connect
MainBlock ==
  /\ phase = "register"
  /\ Len(registered) = Len(ToolsOf(build))
  /\ phase' = IF ~IsPart0b(build) THEN "connect"
              ELSE IF ~direct THEN "imported"
              ELSE IF MissingCredentials(env) THEN "exited"
              ELSE "connect"
  /\ UNCHANGED <<build, env, direct, headers, registered, connected>>
  /\ UNCHANGED invVars

\* server.connect(transport)
Connect ==
  /\ phase = "connect"
  /\ connected' = TRUE
  /\ phase' = "serving"
  /\ UNCHANGED <<build, env, direct, headers, registered>>
  /\ UNCHANGED invVars

(* ----------------------------- invocations ----------------------------- *)

\* carry out what the handler of invocation s does next
Do(s, eff) ==
  /\ eff.op = "fetch" => Len(requests[s]) < MaxFetches
  /\ pc' = [pc EXCEPT ![s] =
       CASE eff.op = "return" -> "returned"
         [] eff.op = "throw" -> "threw"
         [] eff.op = "fetch" -> "awaitFetch"
         [] eff.op = "json" -> "awaitJson"
         [] eff.op = "text" -> "awaitText"]
  /\ result' = [result EXCEPT ![s] =
       CASE eff.op = "return" -> Returned(eff.text)
         [] eff.op = "throw" -> Threw(eff.error)
         [] OTHER -> @]
  /\ requests' = [requests EXCEPT ![s] = IF eff.op = "fetch" THEN Append(@, eff.request) ELSE @]
  /\ reads' = [reads EXCEPT ![s] = IF eff.op \in {"json", "text"} THEN Append(@, eff.op) ELSE @]
  /\ stage' = [stage EXCEPT ![s] = IF eff.op = "text" THEN eff.stage ELSE @]

\* the reads of a response object that the invocations share
EarlierReads_shared(s) ==
  SubSeq(reads[s], 1, Len(reads[s]) - 1)
  \o (IF \E t \in DOMAIN pc \ {s} : reads[t] /= <<>> THEN <<"text">> ELSE <<>>)

\* the body reads made before the one now awaited
EarlierReads(s) == SubSeq(reads[s], 1, Len(reads[s]) - 1)

\* a handler that sets Content-Type on the module constant headers itself,
\* not on a copy
InvokeTool_sharedHeaders(s, tool, raw) ==
  /\ phase \in {"serving", "imported"}
  /\ pc[s] = "idle"
  /\ tool \in Range(registered)
  /\ IF SchemaAccepts(tool, raw)
     THEN /\ call' = [call EXCEPT ![s] = [tool |-> tool, raw |-> raw, args |-> Parsed(tool, raw)]]
          /\ Do(s, Start(build, tool, Parsed(tool, raw), Get(headers)))
          /\ headers' = IF SetsContentType(tool) THEN Some(WithContentType(Get(headers)))
                        ELSE headers
     ELSE /\ call' = [call EXCEPT ![s] = [tool |-> tool, raw |-> raw, args |-> raw]]
          /\ pc' = [pc EXCEPT ![s] = "rejected"]
          /\ result' = [result EXCEPT ![s] = Rejected]
          /\ UNCHANGED <<requests, reads, stage, headers>>
  /\ UNCHANGED <<response, caught>>
  /\ UNCHANGED <<build, env, direct, phase, registered, connected>>

\* the registry invokes a registered tool: the arguments are validated
\* against the tool's schema; if they pass, the handler runs to its first
\* await (or returns before it)
InvokeTool(s, tool, raw) ==
  /\ phase \in {"serving", "imported"}
  /\ pc[s] = "idle"
  /\ tool \in Range(registered)
  /\ IF SchemaAccepts(tool, raw)
     THEN /\ call' = [call EXCEPT ![s] = [tool |-> tool, raw |-> raw, args |-> Parsed(tool, raw)]]
          /\ Do(s, Start(build, tool, Parsed(tool, raw), Get(headers)))
     ELSE /\ call' = [call EXCEPT ![s] = [tool |-> tool, raw |-> raw, args |-> raw]]
          /\ pc' = [pc EXCEPT ![s] = "rejected"]
          /\ result' = [result EXCEPT ![s] = Rejected]
          /\ UNCHANGED <<requests, reads, stage>>
  /\ UNCHANGED <<response, caught>>
  /\ UNCHANGED procVars

\* fetch resolves with a response and the handler runs on
FetchResolvesWith(s, r) ==
  /\ pc[s] = "awaitFetch"
  /\ response' = [response EXCEPT ![s] = r]
  /\ Do(s, OnResponse(build, call[s].tool, call[s].args, r))
  /\ UNCHANGED <<call, caught>>
  /\ UNCHANGED procVars

\* fetch rejects (the network call failed); no handler catches it
FetchRejectsFor(s) ==
  /\ pc[s] = "awaitFetch"
  /\ Do(s, Throw(<<"fetch failed">>))
  /\ UNCHANGED <<call, response, caught>>
  /\ UNCHANGED procVars

\* response.json() settles and the handler runs on
JsonSettlesFor(s) ==
  /\ pc[s] = "awaitJson"
  /\ LET out == JsonOf(response[s], EarlierReads(s)) IN
     /\ Do(s, OnJson(build, call[s].tool, call[s].args, response[s], out))
     /\ caught' = [caught EXCEPT ![s] = IF out.ok THEN @ ELSE out.message]
  /\ UNCHANGED <<call, response>>
  /\ UNCHANGED procVars

\* response.text() settles and the handler runs on
TextSettlesFor(s) ==
  /\ pc[s] = "awaitText"
  /\ LET out == TextOf(response[s], EarlierReads(s)) IN
     Do(s, OnText(build, call[s].tool, call[s].args, response[s], stage[s], out, caught[s]))
  /\ UNCHANGED <<call, response, caught>>
  /\ UNCHANGED procVars

\* a caller invokes a registered tool with some argument object
Invoke ==
  \E s \in DOMAIN pc : \E tool \in Range(registered) : \E raw \in RawArgs(build, tool) :
    InvokeTool(s, tool, raw)

\* the remote service answers
FetchResolves == \E s \in DOMAIN pc : \E r \in Responses : FetchResolvesWith(s, r)

FetchRejects == \E s \in DOMAIN pc : FetchRejectsFor(s)

JsonSettles == \E s \in DOMAIN pc : JsonSettlesFor(s)

TextSettles == \E s \in DOMAIN pc : TextSettlesFor(s)

Next ==
  \/ Boot
  \/ RegisterTool
  \/ MainBlock
  \/ Connect
  \/ Invoke
  \/ FetchResolves
  \/ FetchRejects
  \/ JsonSettles
  \/ TextSettles

Spec == Init /\ [][Next]_vars

(* ----------------------- two invocations in flight ----------------------- *)

\* the registry runs a handler per tools/call request; a handler suspended
\* at an await leaves the event loop free to start or resume another
ConcurrentSlots == {1, 2}

\* the program texts followed with two invocations in flight
ConcurrentBuilds == {"part1", "part0b_upstream"}

\* the responses the remote service gives while two invocations are in flight
ConcurrentResponses ==
  {r \in Responses : r.status \in {200, 204, 400} /\ r.body \in {BodyUsers, BodyMalformed}}

InitConcurrent ==
  /\ build \in ConcurrentBuilds
  /\ env = [JIRA_EMAIL |-> Some(<<"me@acme.com">>), JIRA_API_TOKEN |-> Some(<<"s3cret">>)]
  /\ direct = TRUE
  /\ phase = "boot"
  /\ headers = Absent
  /\ registered = <<>>
  /\ connected = FALSE
  /\ pc = [s \in ConcurrentSlots |-> "idle"]
  /\ call = [s \in ConcurrentSlots |-> NoCall]
  /\ requests = [s \in ConcurrentSlots |-> <<>>]
  /\ response = [s \in ConcurrentSlots |-> NoResponse]
  /\ reads = [s \in ConcurrentSlots |-> <<>>]
  /\ stage = [s \in ConcurrentSlots |-> "none"]
  /\ caught = [s \in ConcurrentSlots |-> <<>>]
  /\ result = [s \in ConcurrentSlots |-> Pending]

\* the remote service answers one of the invocations in flight
FetchResolvesConcurrent ==
  \E s \in DOMAIN pc : \E r \in ConcurrentResponses : FetchResolvesWith(s, r)

NextConcurrent ==
  \/ Boot
  \/ RegisterTool
  \/ MainBlock
  \/ Connect
  \/ Invoke
  \/ FetchResolvesConcurrent
  \/ FetchRejects
  \/ JsonSettles
  \/ TextSettles

SpecConcurrent == InitConcurrent /\ [][NextConcurrent]_vars

(* ------------------------------- claims -------------------------------- *)

EndsWith(s, suf) ==
  /\ Len(suf) <= Len(s)
  /\ SubSeq(s, Len(s) - Len(suf) + 1, Len(s)) = suf

StartsWith(s, pre) ==
  /\ Len(pre) <= Len(s)
  /\ SubSeq(s, 1, Len(pre)) = pre

\* the invocation ended: the handler returned or let an exception escape
Ended(s) == pc[s] \in {"returned", "threw"}

\* fetch resolved for the invocation
Answered(s) == response[s].status /= 0

Text(s) == result[s].content[1].text

\* C1: on any path through any handler the body of a response is read at
\* most once, JSON reads and text reads counted together; in particular no
\* text read follows an attempted JSON read.
C1_BodyReadAtMostOnce ==
  \A s \in DOMAIN pc :
    /\ Len(reads[s]) <= 1
    /\ \A i, j \in 1..Len(reads[s]) : i < j => ~(reads[s][i] = "json" /\ reads[s][j] = "text")

\* C2: whatever the remote outcome (fetch failing, a non-ok response, an ok
\* response whose body does not decode), the invocation ends by returning a
\* text result; no exception escapes the handler.
C2_NoExceptionEscapes ==
  \A s \in DOMAIN pc : pc[s] /= "threw" /\ result[s].kind /= "threw"

\* C3: one invocation calls fetch at most once; no request follows a non-ok
\* response or a decoding failure.
C3_AtMostOneFetch ==
  \A s \in DOMAIN pc :
    /\ Len(requests[s]) <= 1
    /\ Answered(s) => Len(requests[s]) = 1

\* C3 witness: an invocation that ended on a non-ok response after one request
C3_Witness ==
  \E s \in DOMAIN pc :
    Ended(s) /\ Answered(s) /\ ~response[s].ok /\ Len(requests[s]) = 1

\* C4: for getUser, findUsers and getUserGroups an ok response with status
\* 200 whose JSON read fails yields the text "Error parsing JSON response
\* for <subject>. Details: <decode error message>. Raw response: <raw body>".
C4_ParseErrorText ==
  \A s \in DOMAIN pc :
    ( /\ call[s].tool \in {"getUser", "findUsers", "getUserGroups"}
      /\ Ended(s)
      /\ response[s].status = 200
      /\ ~JSONParse(response[s].body).ok )
    => result[s] = Returned(<<"Error parsing JSON response for ">>
                            \o ParseSubject(call[s].tool, call[s].args)
                            \o <<". Details: ">> \o JSONParse(response[s].body).message
                            \o <<". Raw response: ">> \o response[s].body)

\* the text names the status text, the status code and the body as read
NamesStatusAndBody(s) ==
  /\ Includes(Text(s), response[s].statusText)
  /\ Includes(Text(s), NumStr(response[s].status))
  /\ Includes(Text(s), response[s].body)

\* C5 as stated: for all operations a non-ok response yields a text that
\* contains the status text, the status code and the error body as read.
C5_ErrorTextAllOperations ==
  \A s \in DOMAIN pc :
    (Ended(s) /\ Answered(s) /\ ~response[s].ok)
    => result[s].kind = "returned" /\ NamesStatusAndBody(s)

\* the subtask-conflict response of DELETE /issue
IsSubtaskConflict(r) == r.status = 400 /\ Includes(r.body, <<SubtaskMarker>>)

\* C5 amended: a non-ok response yields a text with the status text, the
\* status code and the body as read for every operation except the terse
\* ones, createIssue and deleteIssue's subtask-conflict override; createIssue
\* gives status text and body without the code; a terse operation gives the
\* status text alone.
C5_ErrorTextDetailedOperations ==
  \A s \in DOMAIN pc :
    (Ended(s) /\ Answered(s) /\ ~response[s].ok)
    => /\ result[s].kind = "returned"
       /\ CASE call[s].tool \in {"getTransitions", "postTransitionIssue", "getIssue",
                                 "getDetailIssues", "get_comments", "add_comment",
                                 "delete_comment", "get_dashboard"} ->
                 Text(s) = response[s].statusText
            [] call[s].tool = "createIssue" ->
                 /\ Includes(Text(s), response[s].statusText)
                 /\ Includes(Text(s), response[s].body)
                 /\ ~Includes(Text(s), NumStr(response[s].status))
            [] call[s].tool = "deleteIssue" /\ IsSubtaskConflict(response[s]) ->
                 ~Includes(Text(s), response[s].statusText)
            [] OTHER -> NamesStatusAndBody(s)

\* C5 witness: a detailed error text, with a non-empty body, was returned
C5_Witness ==
  \E s \in DOMAIN pc :
    /\ call[s].tool = "getUser"
    /\ pc[s] = "returned"
    /\ response[s].status = 500
    /\ response[s].body = BodyPlain
    /\ NamesStatusAndBody(s)

\* the operations that decode a 200 response as JSON and report the data
JsonReaders ==
  {"getTransitions", "getIssue", "getDetailIssues", "get_comments", "get_dashboard",
   "getUser", "findUsers", "getUserGroups", "getAllUsers", "getUsersBulk", "getUserEmail",
   "getUserEmailBulk", "getAccountIdsForUsers"}

\* a 200 response with a decodable body was answered with a text
DecodedOk(s) ==
  /\ pc[s] = "returned"
  /\ response[s].status = 200
  /\ JSONParse(response[s].body).ok

\* C6 as stated: for every operation whose endpoint answers 200 with a JSON
\* body, the text of a successful call is exactly the body re-serialized
\* with two-space indentation, nothing before and nothing after.
C6_PrettyJsonAllOperations ==
  \A s \in DOMAIN pc :
    (call[s].tool \in JsonReaders /\ DecodedOk(s))
    => Text(s) = JSONStringify2(JSONParse(response[s].body).val)

\* C6 amended: the text is exactly the re-serialized body for the user
\* operations; getTransitions, getIssue (getDetailIssues), get_comments and
\* get_dashboard put a sentence naming the domain before it.
C6_PrettyJsonUserOperations ==
  \A s \in DOMAIN pc :
    (call[s].tool \in JsonReaders /\ DecodedOk(s))
    => LET pretty == JSONStringify2(JSONParse(response[s].body).val) IN
       IF call[s].tool \in {"getTransitions", "getIssue", "getDetailIssues", "get_comments",
                            "get_dashboard"}
       THEN /\ EndsWith(Text(s), <<": ">> \o pretty)
            /\ Includes(SubSeq(Text(s), 1, Len(Text(s)) - Len(pretty)), call[s].args.domain)
            /\ Len(Text(s)) = Len(pretty) + Len(call[s].args.domain) + 2
       ELSE Text(s) = pretty

\* C6 witness: a user operation returned a re-serialized body that differs
\* from the body as sent
C6_Witness ==
  \E s \in DOMAIN pc :
    /\ call[s].tool = "getUserGroups"
    /\ DecodedOk(s)
    /\ response[s].body = BodyUsers
    /\ Text(s) /= response[s].body
    /\ Text(s) = <<"[", NL, SP, SP, "{", NL, SP, SP, SP, SP, Q, "accountId", Q, ":", SP,
                   Q, "1", Q, NL, SP, SP, "}", NL, "]">>

\* createIssue was called with a non-empty description that is not JSON
BadDescription(s) ==
  /\ call[s].tool = "createIssue"
  /\ call[s].raw.description \notin {Absent, Some(<<>>)}
  /\ ~JSONParse(Get(call[s].raw.description)).ok

\* C7: createIssue with a non-empty description that is not valid JSON makes
\* no network call and returns "Invalid ADF JSON provided for description:
\* <parse error message>" at once.
C7_InvalidDescriptionShortCircuits ==
  \A s \in DOMAIN pc :
    BadDescription(s)
    => /\ requests[s] = <<>>
       /\ pc[s] = "returned"
       /\ Text(s) = <<"Invalid ADF JSON provided for description: ">>
                    \o JSONParse(Get(call[s].raw.description)).message

\* C7 witness: such a call was made and answered
C7_Witness ==
  \E s \in DOMAIN pc :
    /\ BadDescription(s)
    /\ result[s].kind = "returned"
    /\ Text(s) = <<"Invalid ADF JSON provided for description: ", "Unexpected token ",
                   "plain", " in JSON at position ", "0">>

\* a list argument that is absent or empty
NoneGiven(o) == o = Absent \/ o = Some(<<>>)

\* getAccountIdsForUsers was invoked without usernames and without keys
NoUsernamesNoKeys(s) ==
  /\ call[s].tool = "getAccountIdsForUsers"
  /\ NoneGiven(call[s].raw.usernames)
  /\ NoneGiven(call[s].raw.keys)

\* C8: getAccountIdsForUsers invoked with usernames and keys both empty or
\* absent fails input validation, and the invocation makes no network call.
C8_AccountIdsNeedsUsernamesOrKeys ==
  \A s \in DOMAIN pc :
    NoUsernamesNoKeys(s) => pc[s] = "rejected" /\ requests[s] = <<>> /\ ~Answered(s)

\* C8 witness: such an invocation was refused, one list empty and one absent
C8_Witness ==
  \E s \in DOMAIN pc :
    /\ NoUsernamesNoKeys(s)
    /\ call[s].raw.usernames = Some(<<>>)
    /\ call[s].raw.keys = Absent
    /\ result[s].kind = "rejected"

\* C9 as stated: every caller-input validation error, getAccountIdsForUsers
\* without usernames or keys included, is surfaced as a text result (not as
\* a rejected invocation), with the network call skipped.
C9_ValidationErrorsAreText ==
  \A s \in DOMAIN pc :
    (BadDescription(s) \/ NoUsernamesNoKeys(s))
    => result[s].kind = "returned" /\ requests[s] = <<>>

\* C9 amended: an invocation ends without a network call in two ways only.
\* createIssue's malformed description is recovered in the handler and
\* returned as a text result; getAccountIdsForUsers without usernames or
\* keys (like an empty accountIds list) is refused by the schema, which
\* surfaces as a rejected invocation and not as a text result.
C9_ValidationErrorsTextOrRejected ==
  \A s \in DOMAIN pc :
    /\ BadDescription(s) => result[s].kind = "returned" /\ requests[s] = <<>>
    /\ NoUsernamesNoKeys(s) => result[s].kind = "rejected" /\ requests[s] = <<>>
    /\ (result[s].kind = "returned" /\ requests[s] = <<>>) => BadDescription(s)
    /\ result[s].kind = "rejected"
         => /\ requests[s] = <<>>
            /\ \/ NoUsernamesNoKeys(s)
               \/ /\ call[s].tool \in {"getUsersBulk", "getUserEmailBulk"}
                  /\ call[s].raw.accountIds = <<>>

\* C9 witness: a malformed description came back as text without a request
C9_Witness ==
  \E s \in DOMAIN pc :
    BadDescription(s) /\ pc[s] = "returned" /\ requests[s] = <<>> /\ reads[s] = <<>>

\* C10: deleteIssue answers a 400 response whose body contains the subtask
\* marker with the message to set 'deleteSubtasks' to true, not the generic
\* message; any other non-ok status or body gets the generic message
\* "Error deleting issue <key>: <statusText>. Status: <status>."
C10_DeleteSubtaskConflict ==
  \A s \in DOMAIN pc :
    (call[s].tool = "deleteIssue" /\ Ended(s) /\ Answered(s) /\ ~response[s].ok)
    => LET key == call[s].args.issueIdOrKey
           generic == <<"Error deleting issue ">> \o key \o <<": ">> \o response[s].statusText
                      \o <<". Status: ">> \o NumStr(response[s].status) \o <<".">>
       IN /\ result[s].kind = "returned"
          /\ IF response[s].status = 400 /\ \E i \in 1..Len(response[s].body) :
                                               response[s].body[i] = SubtaskMarker
             THEN /\ Text(s) = <<"Error deleting issue ">> \o key
                               \o <<": This issue has subtasks. To delete it, set the 'deleteSubtasks' parameter to true.">>
                  /\ ~StartsWith(Text(s), generic)
             ELSE StartsWith(Text(s), generic)

\* C10 witness: the override was returned for a 400 subtask-conflict body
C10_Witness ==
  \E s \in DOMAIN pc :
    /\ call[s].tool = "deleteIssue"
    /\ pc[s] = "returned"
    /\ response[s].status = 400
    /\ response[s].body = BodySubtasks
    /\ ~Includes(Text(s), <<"Bad Request">>)

\* an assignIssue invocation that got a response and ended
AssignAnswered(s) == call[s].tool = "assignIssue" /\ Ended(s) /\ Answered(s)

\* the three confirmation texts of assignIssue for the arguments a
AssignTexts(a) ==
  LET head == <<"Issue ">> \o a.issueIdOrKey \o <<" in domain ">> \o a.domain IN
  [unassigned |-> head \o <<" was successfully unassigned.">>,
   default |-> head \o <<" was successfully assigned to the default user.">>,
   user |-> IF IsSome(a.accountId)
            THEN head \o <<" was successfully assigned to user ">> \o Get(a.accountId) \o <<".">>
            ELSE <<>>]

\* C11: assignIssue returns the 'successfully unassigned' text when accountId
\* is null, the 'assigned to the default user' text when it is "-1" and a
\* text naming the accountId otherwise, and one of these three only when the
\* status is exactly 204; on any other ok status the text is the same
\* whatever the accountId.
C11_AssignTexts ==
  \A s \in DOMAIN pc :
    AssignAnswered(s)
    => LET a == call[s].args
           t == AssignTexts(a)
       IN /\ result[s].kind = "returned"
          /\ response[s].status = 204
               => Text(s) = (IF ~IsSome(a.accountId) THEN t.unassigned
                             ELSE IF Get(a.accountId) = <<"-1">> THEN t.default
                             ELSE t.user)
          /\ response[s].status /= 204 => Text(s) \notin {t.unassigned, t.default, t.user}
          /\ (response[s].ok /\ response[s].status /= 204)
               => Text(s) = <<"Issue ">> \o a.issueIdOrKey \o <<" assignment updated in domain ">>
                            \o a.domain \o <<". Status: ">> \o NumStr(response[s].status) \o <<".">>

\* C11 witness: a 204 answered an assignment to the default user
C11_Witness ==
  \E s \in DOMAIN pc :
    /\ AssignAnswered(s)
    /\ response[s].status = 204
    /\ call[s].args.accountId = Some(<<"-1">>)
    /\ Includes(Text(s), <<" was successfully assigned to the default user.">>)

\* the status an operation expects of a successful response, as the claim
\* puts it: 200 for reads, 204 for mutations
ExpectedStatus(tool) == IF Method(tool) = "GET" THEN 200 ELSE 204

\* the invocation ended on an ok response without the expected status
UnexpectedOk(s) ==
  /\ Ended(s)
  /\ Answered(s)
  /\ response[s].ok
  /\ response[s].status /= ExpectedStatus(call[s].tool)

\* the user operations whose handler branches on response.status === 200
StatusCheckedReaders ==
  {"getAllUsers", "getUserGroups", "getUserEmailBulk", "getUserEmail", "getAccountIdsForUsers",
   "getUsersBulk", "getUser"} \ TryJsonTools(build)

\* C12 as stated: for every operation, an ok response whose status is not
\* the expected one (200 for reads, 204 for mutations) makes the handler read
\* the body as text and return a text with that status and that body text.
C12_UnexpectedStatusAllOperations ==
  \A s \in DOMAIN pc :
    UnexpectedOk(s)
    => /\ reads[s] = <<"text">>
       /\ result[s].kind = "returned"
       /\ Includes(Text(s), NumStr(response[s].status))
       /\ Includes(Text(s), response[s].body)

\* C12 amended: the text read and the text "<subject> resulted in an
\* unexpected status: <status>. Response: <body>" belong to the user
\* operations that branch on status 200; editIssue, deleteIssue and
\* assignIssue report the status of an ok response other than 204 without
\* reading the body; every other handler does not look at the status of an
\* ok response and never reads its body as text first.
C12_UnexpectedStatusByOperation ==
  \A s \in DOMAIN pc :
    UnexpectedOk(s)
    => CASE call[s].tool \in StatusCheckedReaders ->
              /\ reads[s] = <<"text">>
              /\ result[s].kind = "returned"
              /\ EndsWith(Text(s), <<" resulted in an unexpected status: ">>
                                   \o NumStr(response[s].status) \o <<". Response: ">>
                                   \o response[s].body)
         [] call[s].tool \in {"editIssue", "deleteIssue", "assignIssue"} ->
              /\ reads[s] = <<>>
              /\ result[s].kind = "returned"
              /\ \E w \in {" updated. Status: ", " deleted. Status: ", ". Status: "} :
                   Includes(Text(s), <<w>> \o NumStr(response[s].status) \o <<".">>)
              /\ response[s].body /= <<>> => ~Includes(Text(s), response[s].body)
         [] OTHER -> reads[s] = <<>> \/ reads[s][1] = "json"

\* C12 witness: getUser answered a 201 with the unexpected-status text
C12_Witness ==
  \E s \in DOMAIN pc :
    /\ call[s].tool = "getUser"
    /\ UnexpectedOk(s)
    /\ response[s].status = 201
    /\ response[s].body = BodyPlain
    /\ reads[s] = <<"text">>
    /\ Includes(Text(s), <<" resulted in an unexpected status: ", "201">>)

\* editIssue, deleteIssue or assignIssue got a response with status 204
NoContentAnswered(s) ==
  /\ call[s].tool \in {"editIssue", "deleteIssue", "assignIssue"}
  /\ Answered(s)
  /\ response[s].status = 204

\* the confirmation sentences of the three operations, after "Issue <key>
\* in domain <domain>"
Confirmations(tool, a) ==
  CASE tool = "editIssue" -> {<<" was successfully updated.">>}
    [] tool = "deleteIssue" ->
         {<<" was successfully deleted.">>
          \o (IF a.deleteSubtasks THEN <<" Subtasks were also deleted.">> ELSE <<>>)}
    [] tool = "assignIssue" ->
         {<<" was successfully unassigned.">>, <<" was successfully assigned to the default user.">>}
         \cup (IF IsSome(a.accountId)
               THEN {<<" was successfully assigned to user ">> \o Get(a.accountId) \o <<".">>}
               ELSE {})

\* C13: for editIssue, deleteIssue and assignIssue a response with status
\* 204 produces the fixed confirmation text, and the body of the response is
\* never read, neither as JSON nor as text.
C13_NoContentNoRead ==
  \A s \in DOMAIN pc :
    NoContentAnswered(s)
    => /\ reads[s] = <<>>
       /\ pc[s] = "returned"
       /\ \E c \in Confirmations(call[s].tool, call[s].args) :
            Text(s) = <<"Issue ">> \o call[s].args.issueIdOrKey \o <<" in domain ">>
                      \o call[s].args.domain \o c

\* C13 witness: editIssue confirmed a 204 that came with a body it left unread
C13_Witness ==
  \E s \in DOMAIN pc :
    /\ call[s].tool = "editIssue"
    /\ NoContentAnswered(s)
    /\ response[s].body = BodyPlain
    /\ pc[s] = "returned"
    /\ reads[s] = <<>>
    /\ EndsWith(Text(s), <<" was successfully updated.">>)

\* the invocation ended on a non-ok response
ErrorAnswered(s) == Ended(s) /\ Answered(s) /\ ~response[s].ok

\* the text has a "Details: " part
HasDetails(t) == \E i \in 1..Len(t) : t[i] \in {". Details: ", " Details: "}

\* what follows "Details: " in the text is the body as read and nothing
\* else, but for the note some operations add on a 403
DetailsThenBody(t, body) ==
  \E i \in 1..Len(t) :
    /\ t[i] \in {". Details: ", " Details: "}
    /\ SubSeq(t, i + 1, Len(t)) \in {body, body \o <<ForbiddenNote>>}

\* the handlers that read the body of a non-ok response to report it
DetailTools ==
  {"createIssue", "assignIssue", "deleteIssue", "editIssue", "getAllUsers", "getUserGroups",
   "getUserEmailBulk", "getUserEmail", "getAccountIdsForUsers", "getUsersBulk", "getUser",
   "findUsers"}

\* C14 as stated: on a non-ok response no handler attempts a JSON read, and
\* every handler that reports details reads the body as text exactly once
\* and puts that text, unchanged, after "Details: ".
C14_ErrorBodyVerbatim ==
  \A s \in DOMAIN pc :
    ErrorAnswered(s)
    => /\ \A i \in 1..Len(reads[s]) : reads[s][i] /= "json"
       /\ call[s].tool \in DetailTools
            => /\ reads[s] = <<"text">>
               /\ result[s].kind = "returned"
               /\ DetailsThenBody(Text(s), response[s].body)

\* C14 amended: as stated, except that deleteIssue, after its one text read,
\* leaves the "Details: " part out when the text is empty, and on a 400
\* whose text has the subtask marker returns the fixed subtasks message
\* without the text; the terse handlers read nothing.
C14_ErrorBodyVerbatimButDelete ==
  \A s \in DOMAIN pc :
    ErrorAnswered(s)
    => /\ \A i \in 1..Len(reads[s]) : reads[s][i] /= "json"
       /\ call[s].tool \notin DetailTools => reads[s] = <<>>
       /\ call[s].tool \in DetailTools
            => /\ reads[s] = <<"text">>
               /\ result[s].kind = "returned"
               /\ IF call[s].tool = "deleteIssue"
                     /\ (response[s].body = <<>> \/ IsSubtaskConflict(response[s]))
                  THEN /\ ~HasDetails(Text(s))
                       /\ response[s].body /= <<>> => ~Includes(Text(s), response[s].body)
                  ELSE DetailsThenBody(Text(s), response[s].body)

\* C14 witness: a 500 with a plain-text body came back after one text read,
\* the body following "Details: " as it was
C14_Witness ==
  \E s \in DOMAIN pc :
    /\ call[s].tool = "getUser"
    /\ ErrorAnswered(s)
    /\ response[s].status = 500
    /\ response[s].body = BodyPlain
    /\ reads[s] = <<"text">>
    /\ EndsWith(Text(s), <<". Details: ">> \o BodyPlain)

\* JIRA_EMAIL or JIRA_API_TOKEN is not set
CredentialMissing == env.JIRA_EMAIL = Absent \/ env.JIRA_API_TOKEN = Absent

\* C15: when JIRA_EMAIL or JIRA_API_TOKEN is missing, the process terminates
\* before any tool is registered and before the server is connected to its
\* transport: no tool is ever registered and the server is never connected.
C15_MissingCredentialsExitFirst ==
  CredentialMissing => registered = <<>> /\ ~connected

\* the requests made so far, by any invocation
AllRequests == UNION {Range(requests[s]) : s \in DOMAIN pc}

\* C16: every request of every operation carries the Authorization header
\* (Basic, derived from the credentials) and Accept: application/json, and a
\* request carries Content-Type: application/json if and only if its method
\* is POST or PUT.
C16_RequestHeaders ==
  \A q \in AllRequests :
    /\ {"Authorization", "Accept"} \subseteq DOMAIN q.headers
    /\ q.headers.Authorization
         = <<"Basic ", "base64(">> \o EnvOr(env.JIRA_EMAIL) \o <<":">> \o EnvOr(env.JIRA_API_TOKEN)
           \o <<")">>
    /\ q.headers.Accept = <<"application/json">>
    /\ DOMAIN q.headers \subseteq {"Authorization", "Accept", "Content-Type"}
    /\ "Content-Type" \in DOMAIN q.headers <=> q.method \in {"POST", "PUT"}
    /\ "Content-Type" \in DOMAIN q.headers => q.headers["Content-Type"] = <<"application/json">>

\* C16 witness: assignIssue sent a PUT with the three headers
C16_Witness ==
  \E s \in DOMAIN pc :
    /\ call[s].tool = "assignIssue"
    /\ Len(requests[s]) = 1
    /\ requests[s][1].method = "PUT"
    /\ DOMAIN requests[s][1].headers = {"Authorization", "Accept", "Content-Type"}
    /\ requests[s][1].headers.Authorization
         = <<"Basic ", "base64(", "me@acme.com", ":", "s3cret", ")">>

\* C17: every value a tool handler returns is a content list with exactly
\* one element, and that element has type 'text' and a string text, on
\* success paths and on error paths alike.
C17_SingleTextContent ==
  \A s \in DOMAIN pc :
    /\ pc[s] = "returned" <=> result[s].kind = "returned"
    /\ result[s].kind = "returned"
         => /\ DOMAIN result[s] = {"kind", "content"}
            /\ Len(result[s].content) = 1
            /\ DOMAIN result[s].content[1] = {"type", "text"}
            /\ result[s].content[1].type = "text"
            /\ result[s].content[1].text \in Seq(STRING)

\* C17 witness: an error path returned the one-element list
C17_Witness ==
  \E s \in DOMAIN pc :
    /\ call[s].tool = "getTransitions"
    /\ response[s].status = 500
    /\ result[s] = [kind |-> "returned",
                    content |-> <<[type |-> "text", text |-> <<"Internal Server Error">>]>>]

\* how a handler's last step ends the invocation
Finish(eff) == IF eff.op = "return" THEN Returned(eff.text) ELSE Threw(eff.error)

\* the requests of the call c when its handler runs alone
AloneRequests(b, c, h) ==
  LET e0 == Start(b, c.tool, c.args, h) IN
  IF e0.op = "fetch" THEN <<e0.request>> ELSE <<>>

\* how the call c ends when its handler runs alone, from start to end
\* without another invocation in between, and fetch rejects (r = NoResponse)
\* or resolves to r
AloneResult(b, c, h, r) ==
  LET e0 == Start(b, c.tool, c.args, h) IN
  IF e0.op /= "fetch" THEN Finish(e0)
  ELSE IF r = NoResponse THEN Threw(<<"fetch failed">>)
  ELSE LET e1 == OnResponse(b, c.tool, c.args, r) IN
       CASE e1.op = "text" ->
              Finish(OnText(b, c.tool, c.args, r, e1.stage, TextOf(r, <<>>), <<>>))
         [] e1.op = "json" ->
              LET out == JsonOf(r, <<>>)
                  e2 == OnJson(b, c.tool, c.args, r, out)
              IN IF e2.op = "text"
                 THEN Finish(OnText(b, c.tool, c.args, r, e2.stage, TextOf(r, <<"json">>),
                                    out.message))
                 ELSE Finish(e2)
         [] OTHER -> Finish(e1)

\* the schema let the call of invocation s through to its handler
Handled(s) == call[s] /= NoCall /\ pc[s] /= "rejected"

\* C18: concurrent invocations are independent: in any interleaving of two
\* invocations in flight, the request and the result text of each equal
\* what the same call produces when run alone, and no handler modifies the
\* shared headers value.
C18_ConcurrentIndependence ==
  /\ IsSome(headers) => headers = Some(Headers(env))
  /\ \A s \in DOMAIN pc :
       Handled(s)
       => /\ requests[s] = AloneRequests(build, call[s], Headers(env))
          /\ Ended(s) => result[s] = AloneResult(build, call[s], Headers(env), response[s])

\* C18 witness: two different calls are in flight together, each with its
\* request sent and its response in hand, the POST with Content-Type and the
\* GET without
C18_Witness ==
  /\ DOMAIN pc = {1, 2}
  /\ call[1].tool = "createIssue"
  /\ call[2].tool = "getTransitions"
  /\ pc[1] = "awaitJson"
  /\ pc[2] = "awaitJson"
  /\ Answered(1)
  /\ Answered(2)
  /\ "Content-Type" \in DOMAIN requests[1][1].headers
  /\ "Content-Type" \notin DOMAIN requests[2][1].headers

\* C19: two invocations of the same tool with the same arguments that get
\* the same captured response (ok flag, status, status text, body) return
\* identical text, whichever ran first; given response objects of the same
\* kind they end alike altogether.
C19_SameCallSameText ==
  \A s, t \in DOMAIN pc :
    ( /\ Ended(s) /\ Ended(t)
      /\ call[s] = call[t]
      /\ response[s].ok = response[t].ok
      /\ response[s].status = response[t].status
      /\ response[s].statusText = response[t].statusText
      /\ response[s].body = response[t].body )
    => /\ (result[s].kind = "returned" /\ result[t].kind = "returned") => Text(s) = Text(t)
       /\ response[s].single = response[t].single => result[s] = result[t]

\* C19 witness: assignIssue ran twice with the same arguments and the same
\* 400 response, read the body once each time, and gave the same text
C19_Witness ==
  /\ DOMAIN pc = {1, 2}
  /\ call[1].tool = "assignIssue"
  /\ call[1] = call[2]
  /\ response[1] = response[2]
  /\ response[1].status = 400
  /\ response[1].body = BodyMalformed
  /\ pc[1] = "returned"
  /\ pc[2] = "returned"
  /\ reads = [s \in {1, 2} |-> <<"text">>]
  /\ Text(1) = Text(2)

\* the query string of a URL: what follows the path, which ends in "?"
QueryOf(url) ==
  LET i == CHOOSE i \in 1..Len(url) :
             url[i] \in {"user/bulk?", "user/email/bulk?", "user/bulk/migration?",
                         "users/search?"}
  IN SubSeq(url, i + 1, Len(url))

\* the parts of a query string between its "&" separators
RECURSIVE SplitPairs(_)
SplitPairs(q) ==
  IF q = <<>> THEN <<>>
  ELSE IF \E i \in 1..Len(q) : q[i] = "&"
  THEN LET i == CHOOSE i \in 1..Len(q) : q[i] = "&" /\ \A j \in 1..(i - 1) : q[j] /= "&"
       IN <<SubSeq(q, 1, i - 1)>> \o SplitPairs(SubSeq(q, i + 1, Len(q)))
  ELSE <<q>>

\* a value of a query string read back: "+" is a space, %XX the character
FormDecode(v) ==
  [i \in 1..Len(v) |->
     CASE v[i] = "+" -> SP [] v[i] = "%26" -> "&" [] v[i] = "%2C" -> "," [] OTHER -> v[i]]

RECURSIVE ValuesOfPairs(_, _)
ValuesOfPairs(pairs, key) ==
  IF pairs = <<>> THEN <<>>
  ELSE (IF Len(pairs[1]) >= 2 /\ pairs[1][1] = key /\ pairs[1][2] = "="
        THEN <<FormDecode(SubSeq(pairs[1], 3, Len(pairs[1])))>> ELSE <<>>)
       \o ValuesOfPairs(Tail(pairs), key)

\* the values a server reads for the key from the query string of the URL
QueryValues(url, key) == ValuesOfPairs(SplitPairs(QueryOf(url)), key)

\* a list argument that may be absent
ListOf(o) == IF IsSome(o) THEN Get(o) ELSE <<>>

\* the handler of invocation s sent its request
Sent(s) == Handled(s) /\ Len(requests[s]) = 1

\* C20: in getUsersBulk, getUserEmailBulk and getAccountIdsForUsers each
\* element of a list parameter appears in the query string as its own
\* repeated key (accountId, username, key), in the order of the input list,
\* none dropped and none merged: reading the key's values back from the
\* URL gives the input list.
C20_RepeatedKeysInOrder ==
  \A s \in DOMAIN pc :
    Sent(s)
    => LET url == requests[s][1].url
           a == call[s].raw
       IN CASE call[s].tool \in {"getUsersBulk", "getUserEmailBulk"} ->
                 QueryValues(url, "accountId") = a.accountIds
            [] call[s].tool = "getAccountIdsForUsers" ->
                 /\ QueryValues(url, "username") = ListOf(a.usernames)
                 /\ QueryValues(url, "key") = ListOf(a.keys)
            [] OTHER -> TRUE

\* C20 witness: getUsersBulk sent two account ids, the one with characters
\* to escape first, and the URL has them as two accountId pairs in that order
C20_Witness ==
  \E s \in DOMAIN pc :
    /\ call[s].tool = "getUsersBulk"
    /\ Sent(s)
    /\ call[s].raw.accountIds = <<<<"a", "&", "b", SP, "c">>, <<"123">>>>
    /\ Includes(requests[s][1].url,
                <<"accountId", "=", "a", "%26", "b", "+", "c", "&", "accountId", "=", "123", "&">>)

\* e is the value v percent-encoded for a query string: a character with a
\* meaning in a query string is escaped (a space as %20 or as +), every
\* other character stands as it is
PercentEncoded(v, e) ==
  /\ Len(e) = Len(v)
  /\ \A i \in 1..Len(v) :
       CASE v[i] = SP -> e[i] \in {"%20", "+"}
         [] v[i] = "&" -> e[i] = "%26"
         [] v[i] = "," -> e[i] = "%2C"
         [] OTHER -> e[i] = v[i]

\* the resource path and key of the three user lookups, up to the value
UserQueryHeads(tool) ==
  CASE tool = "getUser" -> {<<"user?accountId=">>, <<"user?", "accountId", "=">>}
    [] tool = "findUsers" -> {<<"user/search?query=">>, <<"user/search?", "query", "=">>}
    [] tool = "getUserGroups" ->
         {<<"user/groups?accountId=">>, <<"user/groups?", "accountId", "=">>}

\* the caller's value of the three user lookups
UserQueryValue(c) == IF c.tool = "findUsers" THEN c.args.query ELSE c.args.accountId

\* C21: getUser, findUsers and getUserGroups issue a GET to
\* https://{domain}/rest/api/3/user, /user/search and /user/groups, with the
\* caller's accountId or query appended as a percent-encoded key=value query
\* parameter, for every input value.
C21_UserQueryEncoded ==
  \A s \in DOMAIN pc :
    (Sent(s) /\ call[s].tool \in {"getUser", "findUsers", "getUserGroups"})
    => LET q == requests[s][1]
           v == UserQueryValue(call[s])
           base == <<"https://">> \o call[s].args.domain \o <<"/rest/api/3/">>
       IN /\ q.method = "GET"
          /\ \E h \in UserQueryHeads(call[s].tool) :
               /\ StartsWith(q.url, base \o h)
               /\ LET rest == SubSeq(q.url, Len(base \o h) + 1, Len(q.url)) IN
                  /\ Len(rest) >= Len(v)
                  /\ PercentEncoded(v, SubSeq(rest, 1, Len(v)))
                  /\ SubSeq(rest, Len(v) + 1, Len(rest)) \in {<<>>, <<"&", "expand", "=", "groups">>}

\* getUserEmail or getUserEmailBulk ended on a non-ok response
EmailErrorAnswered(s) ==
  call[s].tool \in {"getUserEmail", "getUserEmailBulk"} /\ ErrorAnswered(s)

\* C22: getUserEmail and getUserEmailBulk append the permission note ("Note:
\* A 403 Forbidden error for this API can indicate ...") to the error text
\* exactly when the status is 403; for every other non-ok status the text
\* ends with the body details and has no note.
C22_ForbiddenNote ==
  \A s \in DOMAIN pc :
    EmailErrorAnswered(s)
    => /\ result[s].kind = "returned"
       /\ IF response[s].status = 403
          THEN EndsWith(Text(s), <<". Details: ">> \o response[s].body \o <<ForbiddenNote>>)
          ELSE /\ EndsWith(Text(s), <<". Details: ">> \o response[s].body)
               /\ \A i \in 1..Len(Text(s)) : Text(s)[i] /= ForbiddenNote

\* C22 witness: getUserEmail answered a 403 with the body and then the note
C22_Witness ==
  \E s \in DOMAIN pc :
    /\ call[s].tool = "getUserEmail"
    /\ EmailErrorAnswered(s)
    /\ response[s].status = 403
    /\ response[s].body = BodyPlain
    /\ Text(s)[Len(Text(s))] = ForbiddenNote
    /\ Includes(Text(s), <<"Forbidden", ". Status: ", "403", ". Details: ">> \o BodyPlain)

\* C23: getTransitions, postTransitionIssue, getIssue, get_comments,
\* add_comment, delete_comment and get_dashboard return, on any non-ok
\* response, a text that is exactly the status text of the response, and
\* they do not read the body of the response on that path.
C23_TerseStatusText ==
  \A s \in DOMAIN pc :
    ( /\ call[s].tool \in {"getTransitions", "postTransitionIssue", "getIssue", "get_comments",
                           "add_comment", "delete_comment", "get_dashboard"}
      /\ Answered(s)
      /\ ~response[s].ok )
    => /\ pc[s] = "returned"
       /\ Text(s) = response[s].statusText
       /\ reads[s] = <<>>

\* C23 witness: add_comment answered a 403 that came with a body by the
\* text "Forbidden" alone, leaving the body unread
C23_Witness ==
  \E s \in DOMAIN pc :
    /\ call[s].tool = "add_comment"
    /\ response[s].status = 403
    /\ response[s].body = BodyPlain
    /\ pc[s] = "returned"
    /\ reads[s] = <<>>
    /\ Text(s) = <<"Forbidden">>

\* the tool surface as the specification lists it
ToolSurface ==
  {"createIssue", "editIssue", "deleteIssue", "assignIssue", "getIssue", "getTransitions",
   "postTransitionIssue", "add_comment", "get_comments", "delete_comment", "getUser",
   "findUsers", "getUserGroups", "getAllUsers", "getUsersBulk", "getUserEmail",
   "getUserEmailBulk", "getAccountIdsForUsers", "get_dashboard"}

\* the script has made all its server.tool calls
RegistrationDone == phase \in {"connect", "serving", "imported"}

\* no name occurs twice in the sequence
NoDuplicates(seq) == \A i, j \in 1..Len(seq) : seq[i] = seq[j] => i = j

\* C24: the set of tool names the server registers is exactly the
\* tool surface the specification lists, and each name is registered
\* exactly once.
C24_RegistersToolSurface ==
  RegistrationDone => Range(registered) = ToolSurface /\ NoDuplicates(registered)

\* a number as a query string carries it
Decimal(n) == <<ToString(n)>>

\* the number the caller supplied, or d when the caller left it out
SuppliedOr(o, d) == IF o = Absent THEN d ELSE o[1]

Keys(v) == IF v.t = "obj" THEN {v.v[i].k : i \in 1..Len(v.v)} ELSE {}

\* the value of the member of a JSON object by name
Field(v, key) == v.v[CHOOSE i \in 1..Len(v.v) : v.v[i].k = key].v

\* v is a JSON object with exactly the member names ks, each once
IsObjectOf(v, ks) == v.t = "obj" /\ Keys(v) = ks /\ Len(v.v) = Cardinality(ks)

\* v is a JSON array with exactly one element
IsSingleton(v) == v.t = "arr" /\ Len(v.v) = 1

\* doc is the rich-text document with one paragraph with one text node
IsCommentDocument(doc, text) ==
  /\ IsObjectOf(doc, {<<"content">>, <<"type">>, <<"version">>})
  /\ Field(doc, <<"type">>) = JStr(<<"doc">>)
  /\ Field(doc, <<"version">>) = JNum(1)
  /\ IsSingleton(Field(doc, <<"content">>))
  /\ LET para == Field(doc, <<"content">>).v[1] IN
     /\ IsObjectOf(para, {<<"content">>, <<"type">>})
     /\ Field(para, <<"type">>) = JStr(<<"paragraph">>)
     /\ IsSingleton(Field(para, <<"content">>))
     /\ LET node == Field(para, <<"content">>).v[1] IN
        /\ IsObjectOf(node, {<<"text">>, <<"type">>})
        /\ Field(node, <<"type">>) = JStr(<<"text">>)
        /\ Field(node, <<"text">>) = JStr(text)

\* C26: add_comment sends a body whose 'body' member is a document of type
\* 'doc', version 1, with exactly one paragraph node containing exactly one
\* text node whose text is the caller's comment string unchanged: decoding
\* the text that was sent gives that document.
C26_CommentDocument ==
  \A s \in DOMAIN pc :
    (Sent(s) /\ call[s].tool = "add_comment")
    => LET q == requests[s][1] IN
       /\ q.method = "POST"
       /\ IsSome(q.body)
       /\ JSONParse(Get(q.body)).ok
       /\ LET sent == JSONParse(Get(q.body)).val IN
          /\ IsObjectOf(sent, {<<"body">>})
          /\ IsCommentDocument(Field(sent, <<"body">>), call[s].raw.comment)

\* C26 witness: a comment with quotes and a line break was sent, escaped in
\* the text of the body
C26_Witness ==
  \E s \in DOMAIN pc :
    /\ call[s].tool = "add_comment"
    /\ Sent(s)
    /\ call[s].raw.comment = <<"say", SP, Q, "hi", Q, NL, "bye">>
    /\ Includes(Get(requests[s][1].body),
                <<Q, "text", Q, ":", Q, "say", SP, EscQ, "hi", EscQ, EscNL, "bye", Q>>)

\* the description argument is a non-empty string
NonEmptyDescription(c) == c.raw.description \notin {Absent, Some(<<>>)}

\* C27: createIssue sends a body of the form {fields: {project: {key:
\* projectKey}, summary, issuetype: {name: issueType}}}; fields.description
\* is present if and only if the description argument is a non-empty string
\* that parses as JSON, and then it is the parsed value; an absent or
\* empty-string description sends the request without a description field
\* and without any validation error.
C27_CreateIssueBody ==
  \A s \in DOMAIN pc :
    (call[s].tool = "createIssue" /\ call[s] /= NoCall)
    => LET c == call[s] IN
       /\ ~NonEmptyDescription(c) => Sent(s)
       /\ Sent(s)
            => /\ IsSome(requests[s][1].body)
               /\ JSONParse(Get(requests[s][1].body)).ok
               /\ LET sent == JSONParse(Get(requests[s][1].body)).val IN
                  /\ IsObjectOf(sent, {<<"fields">>})
                  /\ LET fields == Field(sent, <<"fields">>) IN
                     /\ fields.t = "obj"
                     /\ {<<"project">>, <<"summary">>, <<"issuetype">>} \subseteq Keys(fields)
                     /\ Keys(fields) \subseteq {<<"project">>, <<"summary">>, <<"issuetype">>,
                                               <<"description">>}
                     /\ Len(fields.v) = Cardinality(Keys(fields))
                     /\ Field(fields, <<"project">>)
                          = JObj(<<Member(<<"key">>, JStr(c.raw.projectKey))>>)
                     /\ Field(fields, <<"summary">>) = JStr(c.raw.summary)
                     /\ Field(fields, <<"issuetype">>)
                          = JObj(<<Member(<<"name">>, JStr(c.raw.issueType))>>)
                     /\ <<"description">> \in Keys(fields)
                          <=> (NonEmptyDescription(c) /\ JSONParse(Get(c.raw.description)).ok)
                     /\ <<"description">> \in Keys(fields)
                          => Field(fields, <<"description">>)
                               = JSONParse(Get(c.raw.description)).val

\* C27 witness: createIssue sent a body whose description is the document
\* the caller gave as text
C27_Witness ==
  \E s \in DOMAIN pc :
    /\ call[s].tool = "createIssue"
    /\ Sent(s)
    /\ call[s].raw.description = Some(AdfDoc)
    /\ Field(Field(JSONParse(Get(requests[s][1].body)).val, <<"fields">>), <<"description">>).t
         = "obj"

\* the caller asked deleteIssue to delete the subtasks too
WantsSubtasks(c) == c.raw.deleteSubtasks = Some(TRUE)

\* C28: deleteIssue appends "?deleteSubtasks=true" to the request URL if and
\* only if deleteSubtasks is true, and on every ok response its text has
\* " Subtasks were also deleted." if and only if deleteSubtasks is true,
\* whether the status is 204 or another 2xx.
C28_DeleteSubtasksFlag ==
  \A s \in DOMAIN pc :
    (call[s].tool = "deleteIssue" /\ Handled(s))
    => LET url == requests[s][1].url
           plain == <<"https://">> \o call[s].raw.domain \o <<"/rest/api/3/", "issue/">>
                    \o call[s].raw.issueIdOrKey
       IN /\ Sent(s)
          /\ requests[s][1].method = "DELETE"
          /\ url = IF WantsSubtasks(call[s]) THEN plain \o <<"?deleteSubtasks=true">> ELSE plain
          /\ (Answered(s) /\ response[s].ok)
               => /\ pc[s] = "returned"
                  /\ Includes(Text(s), <<" Subtasks were also deleted.">>)
                       <=> WantsSubtasks(call[s])

\* C28 witness: deleteIssue with deleteSubtasks true got a 200 and said
\* the subtasks were deleted
C28_Witness ==
  \E s \in DOMAIN pc :
    /\ call[s].tool = "deleteIssue"
    /\ WantsSubtasks(call[s])
    /\ response[s].status = 200
    /\ pc[s] = "returned"
    /\ EndsWith(requests[s][1].url, <<"?deleteSubtasks=true">>)
    /\ EndsWith(Text(s), <<" deleted. Status: ", "200", ".", " Subtasks were also deleted.">>)

\* deleteIssue ended on a non-ok response
DeleteErrorAnswered(s) == call[s].tool = "deleteIssue" /\ ErrorAnswered(s)

\* C29: deleteIssue, on a non-ok response whose body text is empty, returns
\* "Error deleting issue <key>: <statusText>. Status: <status>." with no
\* "Details:" part; the "Details: <body>" part is present exactly when the
\* body text is non-empty and the subtask-conflict override does not apply.
C29_DeleteDetailsOnlyWithBody ==
  \A s \in DOMAIN pc :
    DeleteErrorAnswered(s)
    => LET r == response[s]
           generic == <<"Error deleting issue ">> \o call[s].raw.issueIdOrKey \o <<": ">>
                      \o r.statusText \o <<". Status: ">> \o <<ToString(r.status)>> \o <<".">>
       IN /\ result[s].kind = "returned"
          /\ r.body = <<>> => Text(s) = generic
          /\ HasDetails(Text(s)) <=> (r.body /= <<>> /\ ~IsSubtaskConflict(r))
          /\ HasDetails(Text(s)) => Text(s) = generic \o <<" Details: ">> \o r.body

\* C29 witness: deleteIssue answered a 500 with an empty body by the generic
\* message alone
C29_Witness ==
  \E s \in DOMAIN pc :
    /\ DeleteErrorAnswered(s)
    /\ response[s].status = 500
    /\ response[s].body = <<>>
    /\ reads[s] = <<"text">>
    /\ Text(s) = <<"Error deleting issue ", "PROJ-1", ": ", "Internal Server Error",
                   ". Status: ", "500", ".">>

====
